---- MODULE Spec2Model ----
(***************************************************************************)
(* A model of the cc_B chat backend: the SQLite session index               *)
(* (session_store.py, database.py), the /chat route and its SSE generator   *)
(* (app_factory.py) and the transcript bootstrapper.                        *)
(***************************************************************************)
EXTENDS Integers, Sequences, FiniteSets, TLC

VARIABLES
    sessions,        \* table sessions: session_id -> row | NULL
    agent_sessions,  \* table agent_sessions: agent_id -> row | NULL
    user_settings,   \* table user_settings: user_id -> row | NULL
    plan,            \* the input of a store-level, title or bootstrap run
    applied,         \* the log of what such a run has done, in order
    clock,           \* the wall clock, in ticks
    turn,            \* the /chat requests: turn -> its route and generator state
    boot             \* what the last POST /sessions/load returned

vars == <<sessions, agent_sessions, user_settings, plan, applied, clock, turn, boot>>

\* Python's None / SQL NULL where a string is expected.
NULL == "<null>"

\* No row for the key (a SELECT that finds nothing).
NoRow == [none |-> TRUE]

(***************************************************************************)
(* Bounds.                                                                 *)
(***************************************************************************)
\* Datetimes handed to the store range over 8 .. 8 + MaxT wall ticks (with the
\* UTC offsets, the stored values cross from one digit to two).
MaxT == 1

(***************************************************************************)
(* Datetimes and their stored text form.                                   *)
(* A datetime is [t, us, tz]: wall time t in ticks, a fraction digit us    *)
(* (us = 0 is microsecond == 0) and tz, the tzinfo: "naive" for none,      *)
(* else a zone whose UTC offset TzOffset gives in ticks.                   *)
(***************************************************************************)
TimeRange == 8..(8 + MaxT)

\* (us, tz) shapes: naive, aware UTC with microseconds, aware east, aware west.
Shapes == {<<0, "naive">>, <<5, "utc">>, <<0, "east">>, <<0, "west">>}

TzOffset(tz) == CASE tz = "utc" -> 0 [] tz = "east" -> 1 [] tz = "west" -> -1

Datetimes == {[t |-> t, us |-> s[1], tz |-> s[2]] : t \in TimeRange, s \in Shapes}

DigitStr(d) == SubSeq("0123456789", d + 1, d + 1)

\* Zero-padded two-digit field, as isoformat prints every field.
TwoDigits(n) == DigitStr(n \div 10) \o DigitStr(n % 10)

\* dt.replace(tzinfo=utc) for naive, then astimezone(utc): the UTC wall time.
UtcTime(dt) == IF dt.tz = "naive" THEN dt.t ELSE dt.t - TzOffset(dt.tz)

\* isoformat(): the fraction is printed only when microsecond is not 0.
dt_to_str(dt) ==
    TwoDigits(UtcTime(dt))
        \o (IF dt.us = 0 THEN "" ELSE "." \o DigitStr(dt.us) \o "00000")
        \o "+00:00"

\* The byte value of the characters a stored timestamp is made of.
CharCode(c) ==
    CASE c = "+" -> 43 [] c = "-" -> 45 [] c = "." -> 46 [] c = ":" -> 58
      [] c = "0" -> 48 [] c = "1" -> 49 [] c = "2" -> 50 [] c = "3" -> 51
      [] c = "4" -> 52 [] c = "5" -> 53 [] c = "6" -> 54 [] c = "7" -> 55
      [] c = "8" -> 56 [] c = "9" -> 57

RECURSIVE StrLess(_, _)
\* SQLite's BINARY collation on TEXT: memcmp, then the shorter string first.
StrLess(a, b) ==
    IF a = b \/ Len(b) = 0 THEN FALSE
    ELSE IF Len(a) = 0 THEN TRUE
    ELSE LET ca == CharCode(SubSeq(a, 1, 1))
             cb == CharCode(SubSeq(b, 1, 1))
         IN  IF ca # cb THEN ca < cb
             ELSE StrLess(SubSeq(a, 2, Len(a)), SubSeq(b, 2, Len(b)))

DigitVal(c) == CharCode(c) - 48

\* datetime.fromisoformat on a stored value, as an instant in tenths of a tick.
str_to_dt(s) ==
    LET whole == 10 * DigitVal(SubSeq(s, 1, 1)) + DigitVal(SubSeq(s, 2, 2))
        frac  == IF SubSeq(s, 3, 3) = "." THEN DigitVal(SubSeq(s, 4, 4)) ELSE 0
    IN  10 * whole + frac

\* The instant a datetime denotes (naive read as UTC, as dt_to_str reads it).
Instant(dt) == 10 * UtcTime(dt) + dt.us

(***************************************************************************)
(* SessionMetadataStore.                                                   *)
(***************************************************************************)
SessionIds == {"s1", "s2"}
AgentIds == {"agent-a1"}
Titles == {"t1", "t2"}
Cwds == {"/p", "/q"}

\* A merge that lets the incoming created time win.
MergeCreated_LastWins(existing, excluded) == excluded

\* A merge that keeps the later created time.
MergeCreated_Latest(existing, excluded) ==
    IF StrLess(existing, excluded) THEN excluded ELSE existing

\* ON CONFLICT: created_at = CASE WHEN excluded < existing THEN excluded ...
MergeCreated(existing, excluded) ==
    IF StrLess(excluded, existing) THEN excluded ELSE existing

\* A merge that lets the incoming updated time win.
MergeUpdated_LastWins(existing, excluded) == excluded

\* A merge that never moves the stored updated time.
MergeUpdated_KeepExisting(existing, excluded) == existing

\* ON CONFLICT: updated_at = CASE WHEN excluded > existing THEN excluded ...
MergeUpdated(existing, excluded) ==
    IF StrLess(existing, excluded) THEN excluded ELSE existing

\* An upsert whose update leaves the stored directory as it was.
persist_session_metadata_KeepCwd(tbl, session_id, title, cwd, created_at, updated_at) ==
    LET c == dt_to_str(created_at)
        u == dt_to_str(updated_at)
        old == tbl[session_id]
    IN  IF old = NoRow
        THEN [tbl EXCEPT ![session_id] =
                 [title |-> title, cwd |-> cwd, created_at |-> c, updated_at |-> u]]
        ELSE [tbl EXCEPT ![session_id] =
                 [title |-> title, cwd |-> old.cwd,
                  created_at |-> MergeCreated(old.created_at, c),
                  updated_at |-> MergeUpdated(old.updated_at, u)]]

\* INSERT INTO sessions ... ON CONFLICT(session_id) DO UPDATE: the new table.
persist_session_metadata(tbl, session_id, title, cwd, created_at, updated_at) ==
    LET c == dt_to_str(created_at)
        u == dt_to_str(updated_at)
        old == tbl[session_id]
    IN  IF old = NoRow
        THEN [tbl EXCEPT ![session_id] =
                 [title |-> title, cwd |-> cwd, created_at |-> c, updated_at |-> u]]
        ELSE [tbl EXCEPT ![session_id] =
                 [title |-> title, cwd |-> cwd,
                  created_at |-> MergeCreated(old.created_at, c),
                  updated_at |-> MergeUpdated(old.updated_at, u)]]

\* Every arrangement of the members of S in a sequence, each exactly once.
Orderings(S) ==
    {q \in [1..Cardinality(S) -> S] :
        \A i \in DOMAIN q, j \in DOMAIN q : q[i] = q[j] => i = j}

\* SessionSummary of a stored row: both times through _str_to_dt.  (The
\* message_count field is read from the transcript file, not from the store.)
SessionSummary(tbl, session_id) ==
    [session_id |-> session_id, title |-> tbl[session_id].title,
     cwd |-> tbl[session_id].cwd,
     created_at |-> str_to_dt(tbl[session_id].created_at),
     updated_at |-> str_to_dt(tbl[session_id].updated_at)]

\* A listing ordered by the created time instead.
list_session_summaries_ByCreated(tbl) ==
    {[i \in DOMAIN q |-> SessionSummary(tbl, q[i])] :
        q \in {o \in Orderings({k \in DOMAIN tbl : tbl[k] # NoRow}) :
                 \A i \in 1..(Len(o) - 1) :
                     ~StrLess(tbl[o[i]].created_at, tbl[o[i + 1]].created_at)}}

\* SELECT ... FROM sessions ORDER BY updated_at DESC: the lists the query can
\* return (SQL leaves the order of rows with equal keys open).
list_session_summaries(tbl) ==
    {[i \in DOMAIN q |-> SessionSummary(tbl, q[i])] :
        q \in {o \in Orderings({k \in DOMAIN tbl : tbl[k] # NoRow}) :
                 \A i \in 1..(Len(o) - 1) :
                     ~StrLess(tbl[o[i]].updated_at, tbl[o[i + 1]].updated_at)}}

\* An update that assigns the incoming parent, NULL included.
CoalesceParent_Assign(excluded, existing) == excluded

\* parent_session_id = COALESCE(excluded.parent_session_id, existing).
CoalesceParent(excluded, existing) ==
    IF excluded # NULL THEN excluded ELSE existing

\* PRAGMA foreign_keys = ON with FOREIGN KEY(parent_session_id) REFERENCES
\* sessions(session_id): a non-NULL parent must be a row of sessions.
ForeignKeyOk(stbl, parent) ==
    parent = NULL \/ (parent \in DOMAIN stbl /\ stbl[parent] # NoRow)

\* INSERT INTO agent_sessions ... ON CONFLICT(agent_id) DO UPDATE.  The result
\* is [raised, tbl]: an IntegrityError leaves the table as it was.
persist_agent_session_metadata(atbl, stbl, agent_id, parent, title, cwd, created_at, updated_at) ==
    LET c == dt_to_str(created_at)
        u == dt_to_str(updated_at)
        old == atbl[agent_id]
        row == IF old = NoRow
               THEN [parent_session_id |-> parent, title |-> title, cwd |-> cwd,
                     created_at |-> c, updated_at |-> u]
               ELSE [parent_session_id |->
                         CoalesceParent(parent, old.parent_session_id),
                     title |-> title, cwd |-> cwd,
                     created_at |-> MergeCreated(old.created_at, c),
                     updated_at |-> MergeUpdated(old.updated_at, u)]
    IN  IF ForeignKeyOk(stbl, row.parent_session_id)
        THEN [raised |-> FALSE, tbl |-> [atbl EXCEPT ![agent_id] = row]]
        ELSE [raised |-> TRUE, tbl |-> atbl]

\* Both tables are keyed by TEXT; a transcript can put any identity in either.
Keys == SessionIds \cup AgentIds

\* The accounts of config.yaml.
Users == {"admin"}

EmptySettings == [u \in Users |-> NoRow]

EmptySessions == [s \in Keys |-> NoRow]
EmptyAgents == [a \in Keys |-> NoRow]

(***************************************************************************)
(* Transcript files and the bootstrapper (session_store.py).               *)
(* A file is [stem, kind, data, rest]: its base name without ".jsonl",     *)
(* what reading its first line gives ("unreadable", "empty", "malformed"   *)
(* or "object"), the JSON object of that line (missing keys are NULL) and  *)
(* the lines after the first, each [kind, data], which                     *)
(* _extract_session_metadata_from_file never reads.                        *)
(***************************************************************************)
IsDigit(c) == c \in {"0", "1", "2", "3", "4", "5", "6", "7", "8", "9"}

\* The zone a UTC-offset suffix names; "bad" where fromisoformat fails.
ParseZone(z) ==
    CASE z = "" -> "naive" [] z = "+00:00" -> "utc" [] z = "+01:00" -> "east"
      [] z = "-01:00" -> "west" [] OTHER -> "bad"

\* datetime.fromisoformat: [ok, dt].
fromisoformat(v) ==
    LET n == Len(v)
        digits == n >= 2 /\ IsDigit(SubSeq(v, 1, 1)) /\ IsDigit(SubSeq(v, 2, 2))
        hasFrac == n >= 9 /\ SubSeq(v, 3, 3) = "." /\ IsDigit(SubSeq(v, 4, 4))
                       /\ SubSeq(v, 5, 9) = "00000"
        rest == IF hasFrac THEN SubSeq(v, 10, n) ELSE SubSeq(v, 3, n)
        zone == ParseZone(rest)
    IN  IF digits /\ zone # "bad"
        THEN [ok |-> TRUE,
              dt |-> [t |-> 10 * DigitVal(SubSeq(v, 1, 1)) + DigitVal(SubSeq(v, 2, 2)),
                      us |-> IF hasFrac THEN DigitVal(SubSeq(v, 4, 4)) ELSE 0,
                      tz |-> zone]]
        ELSE [ok |-> FALSE, dt |-> [t |-> 0, us |-> 0, tz |-> "utc"]]

\* _parse_iso_timestamp: a missing or unparseable value is datetime.now(utc).
parse_iso_timestamp(value, now) ==
    IF value = NULL \/ value = "" THEN now
    ELSE LET n == Len(value)
             v == IF SubSeq(value, n, n) = "Z"
                  THEN SubSeq(value, 1, n - 1) \o "+00:00" ELSE value
             r == fromisoformat(v)
         IN  IF r.ok THEN r.dt ELSE now

\* A classifier that takes no file for a sub-agent run.
is_agent_session_file_Never(stem) == FALSE

\* filename.startswith("agent-") (the glob already matched "*.jsonl").
is_agent_session_file(stem) == Len(stem) >= 6 /\ SubSeq(stem, 1, 6) = "agent-"

Truthy(v) == v # NULL /\ v # ""

PyOr(a, b) == IF Truthy(a) THEN a ELSE b

NoMetadata == [none |-> TRUE]

\* _extract_session_metadata_from_file: the metadata, or NoMetadata (None).
extract_session_metadata_from_file(file, now) ==
    IF file.kind \in {"unreadable", "empty", "malformed"} THEN NoMetadata
    ELSE LET data == file.data
             session_id == PyOr(data.session_id, file.stem)
             cwd == PyOr(data.cwd, data.project_path)
         IN  IF ~Truthy(cwd) THEN NoMetadata
             ELSE [session_id |-> session_id,
                   title |-> PyOr(PyOr(data.title, data.text), session_id),
                   cwd |-> cwd,
                   created_at |-> parse_iso_timestamp(data.created_at, now),
                   updated_at |-> parse_iso_timestamp(data.updated_at, now),
                   parent_session_id |-> data.parent_session_id,
                   is_agent_run |-> is_agent_session_file(file.stem)]

RECURSIVE discover_session_metadata_from_files(_, _)
\* _discover_session_metadata_from_files: the files that yield metadata, in
\* the order the directory scan meets them.
discover_session_metadata_from_files(files, now) ==
    IF files = <<>> THEN <<>>
    ELSE LET md == extract_session_metadata_from_file(Head(files), now)
             rest == discover_session_metadata_from_files(Tail(files), now)
         IN  IF md = NoMetadata THEN rest ELSE <<md>> \o rest

RECURSIVE PersistPrimaries_CountNew(_, _, _)
\* A loop that counts only the identities it had not met.
PersistPrimaries_CountNew(mds, tbl, known) ==
    IF mds = <<>> THEN [tbl |-> tbl, known |-> known, n |-> 0]
    ELSE LET md == Head(mds)
             r == PersistPrimaries_CountNew(Tail(mds),
                      persist_session_metadata(tbl, md.session_id, md.title, md.cwd,
                                               md.created_at, md.updated_at),
                      known \cup {md.session_id})
         IN  [r EXCEPT !.n = IF md.session_id \in known THEN @ ELSE @ + 1]

RECURSIVE PersistPrimaries(_, _, _)
\* The loop over primary_sessions: [tbl, known, n].
PersistPrimaries(mds, tbl, known) ==
    IF mds = <<>> THEN [tbl |-> tbl, known |-> known, n |-> 0]
    ELSE LET md == Head(mds)
             r == PersistPrimaries(Tail(mds),
                      persist_session_metadata(tbl, md.session_id, md.title, md.cwd,
                                               md.created_at, md.updated_at),
                      known \cup {md.session_id})
         IN  [r EXCEPT !.n = @ + 1]

\* The declared parent, whatever it is.
KnownParent_Any(parent, known) == parent

\* Lines 320-324: a declared parent that is not a known primary identity is
\* dropped.
KnownParent(parent, known) == IF parent \in known THEN parent ELSE NULL

RECURSIVE PersistAgents(_, _, _, _)
\* The loop over agent_sessions: [tbl, n, raised]; an IntegrityError ends it.
PersistAgents(mds, atbl, stbl, known) ==
    IF mds = <<>> THEN [tbl |-> atbl, n |-> 0, raised |-> FALSE]
    ELSE LET md == Head(mds)
             w == persist_agent_session_metadata(atbl, stbl, md.session_id,
                      KnownParent(md.parent_session_id, known), md.title, md.cwd,
                      md.created_at, md.updated_at)
         IN  IF w.raised THEN [tbl |-> atbl, n |-> 0, raised |-> TRUE]
             ELSE LET r == PersistAgents(Tail(mds), w.tbl, stbl, known)
                  IN  [r EXCEPT !.n = @ + 1]

IsAgentRun(md) == md.is_agent_run
IsPrimary(md) == ~md.is_agent_run

\* Lines 292 and 335: the tables after the two loops, the stats returned and
\* whether the run raised.
BootstrapResult(p, a) ==
    [sessions |-> p.tbl, agent_sessions |-> a.tbl,
     stats |-> [sessions |-> p.n, agent_runs |-> a.n],
     raised |-> a.raised]

\* Lines 319-333, after the loop over the primary files gave p.
BootstrapAgents(found, atbl, p) ==
    BootstrapResult(p, PersistAgents(SelectSeq(found, IsAgentRun), atbl, p.tbl, p.known))

\* A run that persists the sub-agent files first, against the identities the
\* store held before the scan, and the primary files after them.
BootstrapPrimaries_AgentsFirst(found, stbl, atbl) ==
    BootstrapResult(
        PersistPrimaries(SelectSeq(found, IsPrimary), stbl,
                         {k \in DOMAIN stbl : stbl[k] # NoRow}),
        PersistAgents(SelectSeq(found, IsAgentRun), atbl, stbl,
                      {k \in DOMAIN stbl : stbl[k] # NoRow}))

\* A scan that rebuilds both tables from the files alone.
BootstrapPrimaries_FromScratch(found, stbl, atbl) ==
    BootstrapAgents(found, EmptyAgents,
        PersistPrimaries(SelectSeq(found, IsPrimary), EmptySessions, {}))

\* Lines 303-317: the stored identities are read, then the primary files are
\* persisted.
BootstrapPrimaries(found, stbl, atbl) ==
    BootstrapAgents(found, atbl,
        PersistPrimaries(SelectSeq(found, IsPrimary), stbl,
                         {k \in DOMAIN stbl : stbl[k] # NoRow}))

\* bootstrap_sessions_from_files over an existing root.
bootstrap_sessions_from_files(files, stbl, atbl, now) ==
    BootstrapPrimaries(discover_session_metadata_from_files(files, now), stbl, atbl)

(***************************************************************************)
(* The file system the /chat route looks at.                               *)
(***************************************************************************)
\* The directory the server process runs in.
ProcessCwd == "/srv"

\* Path(p).resolve(): "/lnk" is a symbolic link to "/p"; "/f" is a regular
\* file, "/none" does not exist (resolve is not strict); Path("") is ".".
Resolve(p) == IF p = "/lnk" THEN "/p" ELSE IF p = "" THEN ProcessCwd ELSE p

\* Path(p).is_dir(), which follows links.
IsDir(p) == Resolve(p) \in {"/p", "/q", ProcessCwd}

(***************************************************************************)
(* The /chat route (app_factory.py, chat_route) up to the response.        *)
(***************************************************************************)
\* A lookup that answers with a blank record where there is no row.
fetch_session_OrBlank(tbl, session_id) ==
    IF session_id \in DOMAIN tbl /\ tbl[session_id] # NoRow THEN tbl[session_id]
    ELSE [title |-> "", cwd |-> "/p", created_at |-> "08+00:00",
          updated_at |-> "08+00:00"]

\* fetch_session(id, include_messages=False): the row, or NoRow.
fetch_session(tbl, session_id) ==
    IF session_id \in DOMAIN tbl THEN tbl[session_id] ELSE NoRow

\* A comparison of the paths as written.
CwdMismatch_Raw(cwd, stored) == Truthy(cwd) /\ cwd # stored

\* Lines 190-192: the request's cwd, if any, and the stored one resolve apart.
CwdMismatch(cwd, stored) == Truthy(cwd) /\ Resolve(cwd) # Resolve(stored)

\* The path as written.
NewSessionCwd_Raw(cwd) == cwd

\* Line 183: str(Path(body.cwd).resolve())
NewSessionCwd(cwd) == Resolve(cwd)

\* Lines 166-197: [status, detail, is_new_session, existing_session, final_cwd].
ResolveSession(body, tbl) ==
    IF body.session_id = NULL
    THEN IF ~Truthy(body.cwd)
         THEN [status |-> 400, detail |-> "cwd is required", is_new_session |-> TRUE,
               existing_session |-> NoRow, final_cwd |-> NULL]
         ELSE IF ~IsDir(body.cwd)
         THEN [status |-> 400, detail |-> "cwd does not exist", is_new_session |-> TRUE,
               existing_session |-> NoRow, final_cwd |-> NULL]
         ELSE [status |-> 200, detail |-> "", is_new_session |-> TRUE,
               existing_session |-> NoRow, final_cwd |-> NewSessionCwd(body.cwd)]
    ELSE LET existing == fetch_session(tbl, body.session_id)
         IN  IF existing = NoRow
             THEN [status |-> 404, detail |-> "Session not found",
                   is_new_session |-> FALSE, existing_session |-> NoRow,
                   final_cwd |-> NULL]
             ELSE IF CwdMismatch(body.cwd, existing.cwd)
             THEN [status |-> 400, detail |-> "cwd mismatch", is_new_session |-> FALSE,
                   existing_session |-> existing, final_cwd |-> NULL]
             ELSE [status |-> 200, detail |-> "", is_new_session |-> FALSE,
                   existing_session |-> existing, final_cwd |-> existing.cwd]

\* Characters str.strip() removes.
Whitespace == {" ", "\t", "\n", "\r"}

RECURSIVE LStrip(_)
LStrip(s) ==
    IF Len(s) > 0 /\ SubSeq(s, 1, 1) \in Whitespace
    THEN LStrip(SubSeq(s, 2, Len(s))) ELSE s

RECURSIVE RStrip(_)
RStrip(s) ==
    IF Len(s) > 0 /\ SubSeq(s, Len(s), Len(s)) \in Whitespace
    THEN RStrip(SubSeq(s, 1, Len(s) - 1)) ELSE s

\* str.strip()
Strip(s) == RStrip(LStrip(s))

\* The length a title is cut at.
TitleMax == 30

\* A title cut as soon as the text reaches the limit.
new_session_title_CutAtLimit(message) ==
    LET t == IF Strip(message) = "" THEN "NEW" ELSE Strip(message)
    IN  IF Len(t) >= TitleMax THEN SubSeq(t, 1, TitleMax) \o "..." ELSE t

\* Lines 203-205; "NEW" stands for the three-character placeholder literal.
new_session_title(message) ==
    LET t == IF Strip(message) = "" THEN "NEW" ELSE Strip(message)
    IN  IF Len(t) > TitleMax THEN SubSeq(t, 1, TitleMax) \o "..." ELSE t

(***************************************************************************)
(* Agent messages.  A message is [cls, sid, blocks, result]:               *)
(*   "init"         SystemMessage(subtype="init"), sid = data["session_id"]*)
(*   "system"       SystemMessage of another subtype, sid likewise         *)
(*   "assistant"    AssistantMessage with content blocks                   *)
(*   "result"       ResultMessage with session_id and result               *)
(*   "stream_event" StreamEvent with session_id                            *)
(*   "user"         UserMessage                                            *)
(*   "none"         a message _dump_sdk_message has no projection for      *)
(* A block is [type, text, sid]: a TextBlock with its text, or a           *)
(* ToolUseBlock whose input may hold a "session_id" key.                   *)
(***************************************************************************)
Msg(cls, sid, blocks, result) ==
    [cls |-> cls, sid |-> sid, blocks |-> blocks, result |-> result]

TextBlock(text) == [type |-> "text", text |-> text, sid |-> NULL]
ToolUseBlock(sid) == [type |-> "tool_use", text |-> NULL, sid |-> sid]

\* A projection for every message.
HasPayload_Always(m) == TRUE

\* _dump_sdk_message(message) is not None
HasPayload(m) == m.cls # "none"

RECURSIVE LastBlockSid(_)
\* The depth-first search of the payload pops the content list's last dict
\* first: the "session_id" of the last block that has one.
LastBlockSid(blocks) ==
    IF blocks = <<>> THEN NULL
    ELSE LET b == blocks[Len(blocks)]
         IN  IF Truthy(b.sid) THEN b.sid
             ELSE LastBlockSid(SubSeq(blocks, 1, Len(blocks) - 1))

\* A search that reads the payload's own "session_id" key only.
extract_session_id_from_payload_TopLevel(m) ==
    IF m.cls \in {"init", "system", "result", "stream_event"} /\ Truthy(m.sid)
    THEN m.sid ELSE NULL

\* _extract_session_id_from_payload(_dump_sdk_message(m))
extract_session_id_from_payload(m) ==
    CASE m.cls \in {"init", "system", "result", "stream_event"} ->
             IF Truthy(m.sid) THEN m.sid ELSE NULL
      [] m.cls = "assistant" -> LastBlockSid(m.blocks)
      [] OTHER -> NULL

(***************************************************************************)
(* Wire events (format_sse).  n is the position, in the turn's inbox, of   *)
(* the agent message whose handling emitted the event (0: none).           *)
(***************************************************************************)
SessionEvent(sid, cwd, is_new, n) ==
    [kind |-> "session", session_id |-> sid, cwd |-> cwd, is_new |-> is_new, n |-> n]
TokenEvent(sid, text, n) ==
    [kind |-> "token", session_id |-> sid, text |-> text, n |-> n]
MessageEvent(sid, n) ==
    [kind |-> "message", session_id |-> sid, n |-> n]
DoneEvent(sid, cwd, length) ==
    [kind |-> "done", session_id |-> sid, cwd |-> cwd, length |-> length, n |-> 0]
ErrorEvent(message, n) ==
    [kind |-> "error", message |-> message, n |-> n]

RECURSIVE TextChunks_KeepEmpty(_)
\* The texts of a message's TextBlocks, the empty ones included.
TextChunks_KeepEmpty(blocks) ==
    IF blocks = <<>> THEN <<>>
    ELSE LET b == Head(blocks)
         IN  IF b.type = "text"
             THEN <<b.text>> \o TextChunks_KeepEmpty(Tail(blocks))
             ELSE TextChunks_KeepEmpty(Tail(blocks))

RECURSIVE TextChunks(_)
\* The non-empty texts of a message's TextBlocks, in order (lines 258-263).
TextChunks(blocks) ==
    IF blocks = <<>> THEN <<>>
    ELSE LET b == Head(blocks)
         IN  IF b.type = "text" /\ b.text # ""
             THEN <<b.text>> \o TextChunks(Tail(blocks))
             ELSE TextChunks(Tail(blocks))

\* One token event per appended chunk (lines 264-270).
TokenEvents(chunks, sid, n) == [i \in 1..Len(chunks) |-> TokenEvent(sid, chunks[i], n)]

\* The number of chunks instead of the length of their concatenation.
JoinLen_Count(chunks) == Len(chunks)

RECURSIVE JoinLen(_)
\* len("".join(assistant_chunks))
JoinLen(chunks) == IF chunks = <<>> THEN 0 ELSE Len(Head(chunks)) + JoinLen(Tail(chunks))

(***************************************************************************)
(* One /chat request: the route, then the generator event_stream.  A turn's *)
(* fault is what raised inside the generator's try block, if anything did: *)
(* "agent" (query()), "insert" (the init-time insert), "upsert" (the       *)
(* end-of-stream upsert) or "no-identity" (the RuntimeError of line 302).  *)
(***************************************************************************)
Turns == {1, 2}

NoBody == [session_id |-> NULL, cwd |-> NULL, message |-> ""]

IdleTurn ==
    [pc |-> "idle", body |-> NoBody, status |-> 0,
     now |-> [t |-> 0, us |-> 0, tz |-> "utc"],
     is_new_session |-> FALSE, existing_session |-> NoRow, final_cwd |-> NULL,
     session_id |-> NULL, assistant_chunks |-> <<>>,
     invoked |-> FALSE, inbox |-> <<>>, events |-> <<>>, writes |-> <<>>,
     fault |-> NULL]

\* A session event only for the init message that sets the identity.
SessionOnInit_OnlyWhenUnset(session_id, final_cwd, m, n) ==
    IF m.cls = "init" /\ session_id = NULL
    THEN <<SessionEvent(m.sid, final_cwd, TRUE, n)>> ELSE <<>>

\* A session event that says is_new = TRUE for every init message.
SessionOnInit_AlwaysNew(session_id, final_cwd, m, n) ==
    IF m.cls # "init" THEN <<>>
    ELSE IF session_id = NULL THEN <<SessionEvent(m.sid, final_cwd, TRUE, n)>>
    ELSE <<SessionEvent(session_id, final_cwd, TRUE, n)>>

\* Lines 227-255: an init message yields a session event, is_new = TRUE when
\* it sets the identity and FALSE when the identity was already set.
SessionOnInit(session_id, final_cwd, m, n) ==
    IF m.cls # "init" THEN <<>>
    ELSE IF session_id = NULL THEN <<SessionEvent(m.sid, final_cwd, TRUE, n)>>
    ELSE <<SessionEvent(session_id, final_cwd, FALSE, n)>>

\* A loop body in which a result message that carries an identity replaces the
\* identity the turn already has.
TranslateMessage_ResultReplaces(tr, m, n) ==
    LET initAdopt == m.cls = "init" /\ tr.session_id = NULL
        sid1 == IF initAdopt THEN m.sid ELSE tr.session_id
        evInit == SessionOnInit(tr.session_id, tr.final_cwd, m, n)
        texts == IF m.cls = "assistant" THEN TextChunks(m.blocks) ELSE <<>>
        chunks1 == tr.assistant_chunks \o texts
        evTok == TokenEvents(texts, sid1, n)
        resAdopt == m.cls = "result" /\ (sid1 = NULL \/ m.sid # NULL)
        sid2 == IF resAdopt THEN m.sid ELSE sid1
        evRes == IF resAdopt
                 THEN <<SessionEvent(sid2, tr.final_cwd, tr.is_new_session, n)>>
                 ELSE <<>>
        chunks2 == IF m.cls = "result" /\ m.result # NULL /\ chunks1 = <<>>
                   THEN <<m.result>> ELSE chunks1
        psid == PyOr(extract_session_id_from_payload(m), sid2)
        sid3 == IF HasPayload(m) /\ sid2 = NULL /\ psid # NULL THEN psid ELSE sid2
        evMsg == IF HasPayload(m) THEN <<MessageEvent(psid, n)>> ELSE <<>>
    IN  [session_id |-> sid3, assistant_chunks |-> chunks2,
         events |-> evInit \o evTok \o evRes \o evMsg]

\* The body of the loop for one message, lines 218-299, without the init-time
\* insert: the generator's locals after it and the events it yields.
TranslateMessage(tr, m, n) ==
    LET initAdopt == m.cls = "init" /\ tr.session_id = NULL
        sid1 == IF initAdopt THEN m.sid ELSE tr.session_id
        evInit == SessionOnInit(tr.session_id, tr.final_cwd, m, n)
        texts == IF m.cls = "assistant" THEN TextChunks(m.blocks) ELSE <<>>
        chunks1 == tr.assistant_chunks \o texts
        evTok == TokenEvents(texts, sid1, n)
        resAdopt == m.cls = "result" /\ sid1 = NULL
        sid2 == IF resAdopt THEN m.sid ELSE sid1
        evRes == IF resAdopt
                 THEN <<SessionEvent(sid2, tr.final_cwd, tr.is_new_session, n)>>
                 ELSE <<>>
        chunks2 == IF m.cls = "result" /\ m.result # NULL /\ chunks1 = <<>>
                   THEN <<m.result>> ELSE chunks1
        psid == PyOr(extract_session_id_from_payload(m), sid2)
        sid3 == IF HasPayload(m) /\ sid2 = NULL /\ psid # NULL THEN psid ELSE sid2
        evMsg == IF HasPayload(m) THEN <<MessageEvent(psid, n)>> ELSE <<>>
    IN  [session_id |-> sid3, assistant_chunks |-> chunks2,
         events |-> evInit \o evTok \o evRes \o evMsg]

\* An init message is never persisted before its session event.
InitPersists_Never(tr, m) == FALSE

\* Every init message that names an identity is persisted, in resumed turns
\* as well and whether or not an identity is already resolved.
InitPersists_EveryInit(tr, m) == m.cls = "init" /\ m.sid # NULL

\* Lines 229-238: the init message whose identity a new conversation adopts
\* is persisted before anything is yielded for it.
InitPersists(tr, m) ==
    m.cls = "init" /\ tr.session_id = NULL /\ m.sid # NULL /\ tr.is_new_session

\* A write of this turn, as logged in tr.writes.
Write(at, sid, title, cwd, now) ==
    [at |-> at, session_id |-> sid, title |-> title, cwd |-> cwd, now |-> now]

\* An end-of-stream title that is the message text as sent.
FinalTitle_Raw(tr) ==
    IF tr.existing_session = NoRow THEN tr.body.message
    ELSE tr.existing_session.title

\* Lines 306-309: the title the end-of-stream upsert carries.
FinalTitle(tr) ==
    IF tr.existing_session = NoRow THEN new_session_title(tr.body.message)
    ELSE tr.existing_session.title

\* Wall-clock readings range over 8 .. 8 + MaxClock.
MaxClock == 1

\* Agent messages one turn receives before its stream ends or raises.
MaxMsgs == 3

\* datetime.now(timezone.utc) with microsecond digit us.
Now(us) == [t |-> clock, us |-> us, tz |-> "utc"]

\* Time passes.
Tick ==
    /\ clock < 8 + MaxClock
    /\ clock' = clock + 1
    /\ UNCHANGED <<sessions, agent_sessions, user_settings, plan, applied, turn, boot>>

\* POST /chat, lines 166-197 and 336: the request is rejected with an
\* HTTPException, or the StreamingResponse over event_stream() is returned.
StartTurn(t, body, us) ==
    /\ turn[t].pc = "idle"
    /\ LET r == ResolveSession(body, sessions)
       IN  turn' = [turn EXCEPT ![t] =
               [@ EXCEPT !.pc = IF r.status = 200 THEN "open" ELSE "rejected",
                         !.body = body,
                         !.status = r.status,
                         !.now = Now(us),
                         !.is_new_session = r.is_new_session,
                         !.existing_session = r.existing_session,
                         !.final_cwd = r.final_cwd,
                         !.session_id = body.session_id]]
    /\ UNCHANGED <<sessions, agent_sessions, user_settings, plan, applied, clock, boot>>

\* The response starts iterating the generator: lines 200-217, query() is called.
OpenStream(t) ==
    /\ turn[t].pc = "open"
    /\ turn' = [turn EXCEPT ![t] = [@ EXCEPT !.pc = "stream", !.invoked = TRUE]]
    /\ UNCHANGED <<sessions, agent_sessions, user_settings, plan, applied, clock, boot>>

\* The agent yields message m: lines 217-299.  dbfail: the init-time insert,
\* if this message makes one, raises (sqlite3.Error), which line 328 catches.
Recv(t, m, dbfail) ==
    /\ turn[t].pc = "stream"
    /\ Len(turn[t].inbox) < MaxMsgs
    /\ dbfail => InitPersists(turn[t], m)
    /\ \E tr \in {turn[t]}, persists \in {InitPersists(turn[t], m)} :
         IF persists /\ dbfail
         THEN /\ turn' = [turn EXCEPT ![t] =
                      [@ EXCEPT !.pc = "closed",
                                !.inbox = Append(@, m),
                                !.session_id = m.sid,
                                !.fault = "insert",
                                !.events = Append(@, ErrorEvent("sqlite3.Error",
                                                                Len(tr.inbox) + 1))]]
              /\ UNCHANGED sessions
         ELSE \E out \in {TranslateMessage(tr, m, Len(tr.inbox) + 1)},
                 title \in {new_session_title(tr.body.message)} :
                /\ turn' = [turn EXCEPT ![t] =
                        [@ EXCEPT !.inbox = Append(@, m),
                                  !.session_id = out.session_id,
                                  !.assistant_chunks = out.assistant_chunks,
                                  !.events = @ \o out.events,
                                  !.writes = IF persists
                                             THEN Append(@, Write("init", m.sid, title,
                                                              tr.final_cwd, tr.now))
                                             ELSE @]]
                /\ sessions' = IF persists
                               THEN persist_session_metadata(sessions, m.sid, title,
                                        tr.final_cwd, tr.now, tr.now)
                               ELSE sessions
    /\ UNCHANGED <<agent_sessions, user_settings, plan, applied, clock, boot>>

\* An end of stream that yields done before the upsert is made.
StreamEnd_DoneBeforeUpsert(tr, dbfail) ==
    IF tr.session_id = NULL
    THEN <<ErrorEvent("Claude did not return session_id", Len(tr.inbox))>>
    ELSE <<DoneEvent(tr.session_id, tr.final_cwd, JoinLen(tr.assistant_chunks))>>
         \o (IF dbfail THEN <<ErrorEvent("sqlite3.Error", Len(tr.inbox))>> ELSE <<>>)

\* An end of stream that says nothing when no identity was resolved.
StreamEnd_SilentOnNoIdentity(tr, dbfail) ==
    IF tr.session_id = NULL THEN <<>>
    ELSE IF dbfail THEN <<ErrorEvent("sqlite3.Error", Len(tr.inbox))>>
    ELSE <<DoneEvent(tr.session_id, tr.final_cwd, JoinLen(tr.assistant_chunks))>>

\* Lines 301-334: what the generator yields once the agent's stream is over.
StreamEnd(tr, dbfail) ==
    IF tr.session_id = NULL
    THEN <<ErrorEvent("Claude did not return session_id", Len(tr.inbox))>>
    ELSE IF dbfail THEN <<ErrorEvent("sqlite3.Error", Len(tr.inbox))>>
    ELSE <<DoneEvent(tr.session_id, tr.final_cwd, JoinLen(tr.assistant_chunks))>>

\* The agent's stream ends: lines 301-326.  dbfail: the end-of-stream upsert
\* raises.
AgentEnd(t, dbfail) ==
    LET tr == turn[t]
        stored == tr.session_id # NULL /\ ~dbfail
    IN  /\ tr.pc = "stream"
        /\ dbfail => tr.session_id # NULL
        /\ turn' = [turn EXCEPT ![t] =
               [@ EXCEPT !.pc = "closed",
                         !.fault = IF tr.session_id = NULL THEN "no-identity"
                                   ELSE IF dbfail THEN "upsert" ELSE @,
                         !.writes = IF stored
                                    THEN Append(@, Write("end", tr.session_id,
                                             FinalTitle(tr), tr.final_cwd, tr.now))
                                    ELSE @,
                         !.events = @ \o StreamEnd(tr, dbfail)]]
        /\ sessions' = IF stored
                       THEN persist_session_metadata(sessions, tr.session_id,
                                FinalTitle(tr), tr.final_cwd, tr.now, tr.now)
                       ELSE sessions
        /\ UNCHANGED <<agent_sessions, user_settings, plan, applied, clock, boot>>

\* An except clause that yields nothing.
RaisedEvents_Silent(tr) == <<>>

\* Lines 328-334: the error event for an exception out of query().
RaisedEvents(tr) == <<ErrorEvent("agent", Len(tr.inbox))>>

\* query() raises an Exception instead of yielding.
AgentRaise(t) ==
    /\ turn[t].pc = "stream"
    /\ turn' = [turn EXCEPT ![t] =
            [@ EXCEPT !.pc = "closed", !.fault = "agent",
                      !.events = @ \o RaisedEvents(turn[t])]]
    /\ UNCHANGED <<sessions, agent_sessions, user_settings, plan, applied, clock, boot>>

(***************************************************************************)
(* Cancellation.  The stop endpoint and its run registry are not part of   *)
(* cc_B; dev_tests/test_chat_stop.py is their caller.  What they do to a   *)
(* turn is taken from the specification, sections 5 and 6: a stopped event *)
(* carrying the identity if known, as the terminal event, and the          *)
(* end-of-stream upsert attempted if an identity was resolved.             *)
(***************************************************************************)
StoppedEvent(sid, n) == [kind |-> "stopped", session_id |-> sid, n |-> n]

\* The terminal event of a cancelled turn.
StopEvents(tr) == <<StoppedEvent(tr.session_id, Len(tr.inbox))>>

\* A cancellation that attempts the upsert on resumed conversations only.
StopUpserts_OnlyResumed(tr) == tr.session_id # NULL /\ tr.existing_session # NoRow

\* The end-of-stream upsert is attempted iff an identity was resolved.
StopUpserts(tr) == tr.session_id # NULL

\* POST /chat/stop for the run of turn t while its stream is in flight.
\* dbfail: the attempted upsert raises; the attempt is logged either way.
Cancel(t, dbfail) ==
    /\ turn[t].pc = "stream"
    /\ \E tr \in {turn[t]}, attempts \in {StopUpserts(turn[t])} :
         /\ dbfail => attempts
         /\ turn' = [turn EXCEPT ![t] =
                [@ EXCEPT !.pc = "closed",
                          !.fault = "cancelled",
                          !.writes = IF attempts
                                     THEN Append(@, Write(IF dbfail THEN "stop-failed"
                                                          ELSE "stop",
                                              tr.session_id, FinalTitle(tr),
                                              tr.final_cwd, tr.now))
                                     ELSE @,
                          !.events = @ \o StopEvents(tr)]]
         /\ sessions' = IF attempts /\ ~dbfail
                        THEN persist_session_metadata(sessions, tr.session_id,
                                 FinalTitle(tr), tr.final_cwd, tr.now, tr.now)
                        ELSE sessions
    /\ UNCHANGED <<agent_sessions, user_settings, plan, applied, clock, boot>>

(***************************************************************************)
(* User settings (user_settings_store.py).                                 *)
(***************************************************************************)
\* A serializer that stores a string prompt as it is.
serialize_system_prompt_Raw(value) == value

\* json.dumps of a string prompt; None stays NULL.
serialize_system_prompt(value) == IF value = NULL THEN NULL ELSE "\"" \o value \o "\""

\* json.loads of the stored text: a JSON string yields its content, the JSON
\* literal null yields None, and text that is not JSON is returned as it is.
deserialize_system_prompt(raw) ==
    IF raw = NULL THEN NULL
    ELSE IF Len(raw) >= 2 /\ SubSeq(raw, 1, 1) = "\"" /\ SubSeq(raw, Len(raw), Len(raw)) = "\""
         THEN SubSeq(raw, 2, Len(raw) - 1)
    ELSE IF raw = "null" THEN NULL
    ELSE raw

\* SELECT ... FROM user_settings WHERE user_id = ?: None when there is no row.
fetch_user_settings(tbl, user_id) ==
    IF tbl[user_id] = NoRow THEN NoRow
    ELSE [user_id |-> user_id, permission_mode |-> tbl[user_id].permission_mode,
          system_prompt |-> deserialize_system_prompt(tbl[user_id].system_prompt)]

\* INSERT INTO user_settings ... ON CONFLICT(user_id) DO UPDATE: the new table.
upsert_user_settings(tbl, user_id, permission_mode, system_prompt) ==
    [tbl EXCEPT ![user_id] = [permission_mode |-> permission_mode,
                              system_prompt |-> serialize_system_prompt(system_prompt)]]

PermissionModes == {"default", "plan"}

SystemPrompts == {NULL, "be brief"}

\* The prompts of the settings runs: also a text that is itself a JSON literal.
SettingsPrompts == SystemPrompts \cup {"null"}

\* UserSettings(user_id=user_id): the model's defaults.
DefaultSettings(user_id) ==
    [user_id |-> user_id, permission_mode |-> "default", system_prompt |-> "<preset>"]

\* PUT /users/{user_id}/settings by current_user, app_factory.py 143-155; a
\* request for another user's settings is refused with 403.
UpsertUserSettings(current_user, user_id, permission_mode, system_prompt) ==
    /\ current_user = user_id
    /\ user_settings' = upsert_user_settings(user_settings, user_id, permission_mode,
                                             system_prompt)
    /\ applied' = IF plan.kind = "settings"
                  THEN Append(applied, [op |-> "put", user_id |-> user_id,
                                        permission_mode |-> permission_mode,
                                        system_prompt |-> system_prompt])
                  ELSE applied
    /\ UNCHANGED <<sessions, agent_sessions, plan, clock, turn, boot>>

\* GET /users/{user_id}/settings by current_user, app_factory.py 131-141: the
\* stored settings, or the defaults when the store holds none.
GetUserSettings(current_user, user_id) ==
    /\ current_user = user_id
    /\ plan.kind = "settings"
    /\ LET settings == fetch_user_settings(user_settings, user_id)
       IN  applied' = Append(applied,
               [op |-> "get", user_id |-> user_id, settings |-> settings,
                response |-> IF settings = NoRow THEN DefaultSettings(user_id)
                             ELSE settings])
    /\ UNCHANGED <<sessions, agent_sessions, user_settings, plan, clock, turn, boot>>

(***************************************************************************)
(* Transcript roots: what a scan of <root>/projects/*/*.jsonl can meet.    *)
(***************************************************************************)
Data(session_id, cwd, project_path, created_at, updated_at, title, text, parent) ==
    [session_id |-> session_id, cwd |-> cwd, project_path |-> project_path,
     created_at |-> created_at, updated_at |-> updated_at, title |-> title,
     text |-> text, parent_session_id |-> parent]

NoData == Data(NULL, NULL, NULL, NULL, NULL, NULL, NULL, NULL)

File(stem, kind, data) == [stem |-> stem, kind |-> kind, data |-> data, rest |-> <<>>]

Line(kind, data) == [kind |-> kind, data |-> data]

\* A file of one line or more.
Transcript(stem, lines) ==
    [stem |-> stem, kind |-> lines[1].kind, data |-> lines[1].data, rest |-> Tail(lines)]

PrimaryFiles ==
    {File("s1", "object", Data(NULL, "/p", NULL, "08Z", "09Z", "t2", NULL, NULL)),
     File("s1", "object", Data(NULL, "/lnk", NULL, NULL, NULL, NULL, NULL, NULL)),
     File("s2", "object",
          Data(NULL, NULL, "/q", "10+01:00", "08.500000+00:00", NULL, "t1", NULL)),
     File("s2", "object", Data(NULL, NULL, NULL, "08Z", "08Z", "t1", NULL, NULL)),
     File("s1", "malformed", NoData)}

AgentFiles ==
    {File("agent-a1", "object", Data(NULL, "/p", NULL, "09", "bad", NULL, NULL, p)) :
        p \in {NULL, "s1", "s2", "ghost"}}

Files == PrimaryFiles \cup AgentFiles

\* Files that cannot be read, hold nothing, declare no directory, or mix
\* malformed lines, records without a directory and records with one.
MixedFiles ==
    LET bad == Line("malformed", NoData)
        bare == Line("object", NoData)
        q == Line("object", Data(NULL, "/q", NULL, "08Z", "09Z", "t1", NULL, NULL))
        pp == Line("object", Data(NULL, "/p", NULL, "09Z", "09.500000+00:00", NULL, "t2", NULL))
        run == Line("object", Data(NULL, "/p", NULL, "09Z", "09Z", NULL, NULL, "s1"))
    IN  {File("s2", "unreadable", NoData), File("s2", "empty", NoData),
         File("s1", "object", NoData),
         Transcript("s2", <<bad, q>>),
         Transcript("s1", <<bare, pp>>),
         Transcript("s2", <<bad, bad, q, bad, pp>>),
         Transcript("s1", <<pp, bad, bad, bad, q>>),
         Transcript("agent-a1", <<bad, run>>)}

\* A root is [exists, files]: the files in the order the scan meets them.
Roots ==
    {[exists |-> TRUE, files |-> q] :
        q \in {<<>>} \cup {<<f>> : f \in Files \cup MixedFiles}
                 \cup {<<f, g>> : f \in Files \cup MixedFiles, g \in Files \cup MixedFiles}}
    \cup {[exists |-> FALSE, files |-> <<>>]}

\* The roots the server is started on (CLAUDE_ROOT).
StartupRoots ==
    {[exists |-> TRUE, files |-> <<>>],
     [exists |-> TRUE,
      files |-> <<File("s1", "object",
                       Data(NULL, "/p", NULL, "08Z", "09Z", "t2", NULL, NULL))>>],
     [exists |-> TRUE,
      files |-> <<File("agent-a1", "object",
                       Data(NULL, "/p", NULL, "09", "bad", NULL, NULL, "s1")),
                  File("s1", "object",
                       Data(NULL, "/lnk", NULL, NULL, NULL, NULL, NULL, NULL))>>]}

\* SELECT session_id FROM sessions (or agent_id FROM agent_sessions).
StoredIds(tbl) == {k \in DOMAIN tbl : tbl[k] # NoRow}

\* No POST /sessions/load request has been answered yet.
NoBoot == [status |-> 0, stats |-> [sessions |-> 0, agent_runs |-> 0]]

\* POST /sessions/load, app_factory.py lines 113-130: FileNotFoundError is a
\* 400; any other exception leaves the rows written before it.
LoadSessions(root) ==
    /\ IF ~root.exists
       THEN /\ boot' = [status |-> 400, stats |-> [sessions |-> 0, agent_runs |-> 0]]
            /\ UNCHANGED <<sessions, agent_sessions>>
       ELSE \E r \in {bootstrap_sessions_from_files(root.files, sessions,
                                                   agent_sessions, Now(5))} :
                /\ sessions' = r.sessions
                /\ agent_sessions' = r.agent_sessions
                /\ boot' = [status |-> IF r.raised THEN 500 ELSE 200,
                            stats |-> r.stats]
    /\ UNCHANGED <<user_settings, plan, clock, turn>>
    /\ applied' = IF plan.kind = "root"
                  THEN Append(applied, [boot |-> boot',
                                        sessions |-> StoredIds(sessions'),
                                        agent_sessions |-> StoredIds(agent_sessions')])
                  ELSE applied

(***************************************************************************)
(* Store-level runs: Init draws two calls on one identity, the actions     *)
(* make them in either order.                                              *)
(***************************************************************************)
ConvCalls ==
    {[title |-> x[1], cwd |-> x[2], created_at |-> c, updated_at |-> u] :
        x \in {<<"t1", "/p">>, <<"t2", "/q">>}, c \in Datetimes, u \in Datetimes}

AgentCalls ==
    {[parent |-> p, title |-> "t1", cwd |-> "/p", created_at |-> d, updated_at |-> d] :
        p \in SessionIds \cup {NULL}, d \in Datetimes}

\* Two calls on one identity.
Plan(kind, id, a, b) == [kind |-> kind, id |-> id, calls |-> <<a, b>>]

Range(q) == {q[i] : i \in 1..Len(q)}

InitStore ==
    /\ user_settings = EmptySettings
    /\ sessions = EmptySessions
    /\ agent_sessions = EmptyAgents
    /\ \/ \E s \in SessionIds, a \in ConvCalls, b \in ConvCalls :
             plan = Plan("conv", s, a, b)
       \/ \E g \in AgentIds, a \in AgentCalls, b \in AgentCalls :
             plan = Plan("agent", g, a, b)
    /\ applied = <<>>
    /\ clock = 8
    /\ turn = [t \in Turns |-> IdleTurn]
    /\ boot = NoBoot

\* upsertConversation with the plan's i-th call.
ApplyConv(i) ==
    /\ plan.kind = "conv"
    /\ i \notin Range(applied)
    /\ LET c == plan.calls[i]
       IN  sessions' = persist_session_metadata(sessions, plan.id, c.title, c.cwd,
                                                c.created_at, c.updated_at)
    /\ applied' = Append(applied, i)
    /\ UNCHANGED <<agent_sessions, user_settings, plan, clock, turn, boot>>

\* A conversation some other request stored: the parents a sub-agent can name.
SeedConversation(s) ==
    /\ plan.kind = "agent"
    /\ sessions[s] = NoRow
    /\ LET d == [t |-> 8, us |-> 0, tz |-> "utc"]
       IN  sessions' = persist_session_metadata(sessions, s, "t1", "/p", d, d)
    /\ UNCHANGED <<agent_sessions, user_settings, plan, applied, clock, turn, boot>>

\* upsertSubAgent with the plan's i-th call; an IntegrityError changes nothing.
ApplyAgent(i) ==
    /\ plan.kind = "agent"
    /\ i \notin Range(applied) /\ -i \notin Range(applied)
    /\ LET c == plan.calls[i]
           r == persist_agent_session_metadata(agent_sessions, sessions, plan.id,
                    c.parent, c.title, c.cwd, c.created_at, c.updated_at)
       IN  /\ agent_sessions' = r.tbl
           /\ applied' = Append(applied, IF r.raised THEN -i ELSE i)
    /\ UNCHANGED <<sessions, user_settings, plan, clock, turn, boot>>

NextStore ==
    \/ \E i \in 1..2 : ApplyConv(i)
    \/ \E s \in SessionIds : SeedConversation(s)
    \/ \E i \in 1..2 : ApplyAgent(i)

SpecStore == InitStore /\ [][NextStore]_vars

(***************************************************************************)
(* Listing: conversations are stored under any identity with any times,    *)
(* and GET /sessions reads the store; applied holds the last response      *)
(* until the store changes again.                                          *)
(***************************************************************************)
ListPlan == [kind |-> "list", id |-> NULL, calls |-> <<>>]

InitList ==
    /\ user_settings = EmptySettings
    /\ sessions = EmptySessions
    /\ agent_sessions = EmptyAgents
    /\ plan = ListPlan
    /\ applied = <<>>
    /\ clock = 8
    /\ turn = [t \in Turns |-> IdleTurn]
    /\ boot = NoBoot

\* persist_session_metadata as a chat turn calls it: one time for both columns.
PersistConversation(s, d) ==
    /\ plan.kind = "list"
    /\ sessions' = persist_session_metadata(sessions, s, "t1", "/p", d, d)
    /\ applied' = <<>>
    /\ UNCHANGED <<agent_sessions, user_settings, plan, clock, turn, boot>>

\* GET /sessions.
ListSessions ==
    /\ plan.kind = "list"
    /\ \E q \in list_session_summaries(sessions) : applied' = <<q>>
    /\ UNCHANGED <<sessions, agent_sessions, user_settings, plan, clock, turn, boot>>

NextList ==
    \/ \E s \in Keys, d \in Datetimes : PersistConversation(s, d)
    \/ ListSessions

SpecList == InitList /\ [][NextList]_vars

(***************************************************************************)
(* Settings: two accounts write and read their settings in any order;      *)
(* applied is the log of the requests served.                              *)
(***************************************************************************)
MaxOps == 3

SettingsUsers == {"admin", "alice"}

SettingsPlan == [kind |-> "settings", id |-> NULL, calls |-> <<>>]

InitSettings ==
    /\ user_settings = [u \in SettingsUsers |-> NoRow]
    /\ sessions = EmptySessions
    /\ agent_sessions = EmptyAgents
    /\ plan = SettingsPlan
    /\ applied = <<>>
    /\ clock = 8
    /\ turn = [t \in Turns |-> IdleTurn]
    /\ boot = NoBoot

NextSettings ==
    \/ \E u \in SettingsUsers, v \in SettingsUsers, pm \in PermissionModes,
          sp \in SettingsPrompts :
          Len(applied) < MaxOps /\ UpsertUserSettings(u, v, pm, sp)
    \/ \E u \in SettingsUsers, v \in SettingsUsers :
          Len(applied) < MaxOps /\ GetUserSettings(u, v)

SpecSettings == InitSettings /\ [][NextSettings]_vars

(***************************************************************************)
(* The running server.  Init is the state create_app() leaves: init_db()   *)
(* and the startup scan of CLAUDE_ROOT (which must exist, or the process   *)
(* does not start).                                                        *)
(***************************************************************************)
NoPlan == [kind |-> "none", id |-> NULL, calls |-> <<>>]

Init ==
    /\ user_settings = EmptySettings
    /\ clock = 8
    /\ \E root \in StartupRoots :
         LET r == bootstrap_sessions_from_files(root.files, EmptySessions,
                                                EmptyAgents, Now(5))
         IN  /\ sessions = r.sessions
             /\ agent_sessions = r.agent_sessions
    /\ turn = [t \in Turns |-> IdleTurn]
    /\ boot = NoBoot
    /\ plan = NoPlan
    /\ applied = <<>>

(***************************************************************************)
(* Title derivation on its own: plan holds a message text in three parts,  *)
(* leading whitespace, a text that neither starts nor ends with            *)
(* whitespace, trailing whitespace; applied receives the derived title.    *)
(***************************************************************************)
\* The longest text between the whitespace.
MaxTextLen == 33

TextSource == "0123456789abcdefghijklmnopqrstuvwxyzABCD"

Texts ==
    {SubSeq(TextSource, 1, n) : n \in 0..MaxTextLen}
    \cup {"a b", "x\ty", "0123456789abcdefghijklmnopqrs u", "0123456789abcdefghijklmnopqr  v"}

TitlePlan(left, text, right) == [kind |-> "title", id |-> NULL, calls |-> <<left, text, right>>]

InitTitle ==
    /\ user_settings = EmptySettings
    /\ sessions = EmptySessions
    /\ agent_sessions = EmptyAgents
    /\ clock = 8
    /\ turn = [t \in Turns |-> IdleTurn]
    /\ boot = NoBoot
    /\ \E left \in {"", " ", "\t\n "}, text \in Texts, right \in {"", "  ", " \r\n"} :
          plan = TitlePlan(left, text, right)
    /\ applied = <<>>

\* Lines 202-205 of event_stream on the planned message text.
DeriveTitle ==
    /\ plan.kind = "title"
    /\ applied = <<>>
    /\ applied' = <<new_session_title(plan.calls[1] \o plan.calls[2] \o plan.calls[3])>>
    /\ UNCHANGED <<sessions, agent_sessions, user_settings, plan, clock, turn, boot>>

NextTitle == DeriveTitle

SpecTitle == InitTitle /\ [][NextTitle]_vars

(***************************************************************************)
(* Repeated /sessions/load requests over one transcript root that does not *)
(* change, while time passes.  plan is the root, applied the log of the    *)
(* answers: [boot, sessions, agent_sessions], the response and the         *)
(* identities stored once it was given.                                    *)
(***************************************************************************)
\* Requests over the root under test.
MaxRuns == 2

RootPlan(root) == [kind |-> "root", id |-> root.exists, calls |-> root.files]

PlannedRoot == [exists |-> plan.id, files |-> plan.calls]

InitBoot ==
    /\ user_settings = EmptySettings
    /\ clock = 8
    /\ \E root \in StartupRoots :
         LET r == bootstrap_sessions_from_files(root.files, EmptySessions,
                                                EmptyAgents, Now(5))
         IN  /\ sessions = r.sessions
             /\ agent_sessions = r.agent_sessions
    /\ turn = [t \in Turns |-> IdleTurn]
    /\ boot = NoBoot
    /\ \E root \in Roots : plan = RootPlan(root)
    /\ applied = <<>>

NextBoot ==
    \/ Tick
    \/ Len(applied) < MaxRuns /\ LoadSessions(PlannedRoot)

SpecBoot == InitBoot /\ [][NextBoot]_vars

ReqCwds == {NULL, "", "/p", "/lnk", "/q", "/f", "/none"}

\* 31 characters.
LongMessage == "0123456789abcdefghijklmnopqrstu"

Messages == {"hello", "  ", LongMessage}

\* Every identity with every cwd, and the three message shapes on a new and
\* on a resumed conversation.
Bodies ==
    {[session_id |-> i, cwd |-> c, message |-> "hello"] :
        i \in SessionIds \cup {NULL}, c \in ReqCwds}
    \cup {[session_id |-> NULL, cwd |-> "/p", message |-> m] : m \in Messages}
    \cup {[session_id |-> "s1", cwd |-> NULL, message |-> m] : m \in Messages}

AgentMsgs ==
    {Msg("init", i, <<>>, NULL) : i \in SessionIds \cup {NULL}}
    \cup {Msg("system", "s2", <<>>, NULL)}
    \cup {Msg("assistant", NULL, b, NULL) :
            b \in {<<TextBlock("a")>>,
                   <<TextBlock(""), ToolUseBlock("s2"), TextBlock("bc")>>}}
    \cup {Msg("result", "s1", <<>>, "r"), Msg("result", "s2", <<>>, NULL)}
    \cup {Msg("none", NULL, <<>>, NULL)}

\* One request at a time, any body, any agent behaviour.
NextTurn ==
    \/ \E b \in Bodies : StartTurn(1, b, 5)
    \/ OpenStream(1)
    \/ \E m \in AgentMsgs, f \in BOOLEAN : Recv(1, m, f)
    \/ \E f \in BOOLEAN : AgentEnd(1, f)
    \/ AgentRaise(1)

SpecTurn == Init /\ [][NextTurn]_vars

(***************************************************************************)
(* The translation of the agent's messages: one request, for a new         *)
(* conversation or for a stored one, and any agent behaviour.              *)
(***************************************************************************)
AgentBodies ==
    {[session_id |-> NULL, cwd |-> "/p", message |-> "hello"],
     [session_id |-> "s1", cwd |-> NULL, message |-> "hello"]}

NextAgent ==
    \/ \E b \in AgentBodies : StartTurn(1, b, 5)
    \/ OpenStream(1)
    \/ \E m \in AgentMsgs, f \in BOOLEAN : Recv(1, m, f)
    \/ \E f \in BOOLEAN : AgentEnd(1, f)
    \/ AgentRaise(1)

SpecAgent == Init /\ [][NextAgent]_vars

(***************************************************************************)
(* One request that may be cancelled while its stream is in flight.        *)
(***************************************************************************)
StopBodies ==
    {[session_id |-> NULL, cwd |-> "/lnk", message |-> LongMessage],
     [session_id |-> "s1", cwd |-> NULL, message |-> "hello"],
     [session_id |-> "s2", cwd |-> NULL, message |-> "hello"]}

StopMsgs ==
    {Msg("init", "s2", <<>>, NULL), Msg("init", NULL, <<>>, NULL),
     Msg("assistant", NULL, <<TextBlock("a")>>, NULL),
     Msg("result", "s1", <<>>, "r"), Msg("none", NULL, <<>>, NULL)}

NextStop ==
    \/ \E b \in StopBodies : StartTurn(1, b, 5)
    \/ OpenStream(1)
    \/ \E m \in StopMsgs, f \in BOOLEAN : Recv(1, m, f)
    \/ \E f \in BOOLEAN : AgentEnd(1, f)
    \/ AgentRaise(1)
    \/ \E f \in BOOLEAN : Cancel(1, f)

SpecStop == Init /\ [][NextStop]_vars

(***************************************************************************)
(* Concurrent requests: two /chat turns and /sessions/load requests        *)
(* interleave at every await of the event loop, while time passes.         *)
(***************************************************************************)
\* Request 1 opens a conversation while request 2 resumes one.
NewBodies == {[session_id |-> NULL, cwd |-> "/lnk", message |-> "hello"]}

ResumeBodies ==
    {[session_id |-> "s1", cwd |-> NULL, message |-> "hello"],
     [session_id |-> "s2", cwd |-> "/q", message |-> "hello"]}

CoreMsgs == {Msg("init", "s1", <<>>, NULL)}

\* Agent messages one turn receives while another request is in flight.
MaxCoreMsgs == 1

LoadRoots ==
    {[exists |-> FALSE, files |-> <<>>],
     [exists |-> TRUE,
      files |-> <<File("s2", "object",
                       Data(NULL, NULL, "/q", "10+01:00", "08.500000+00:00",
                            NULL, "t1", NULL)),
                  File("agent-a1", "object",
                       Data(NULL, "/p", NULL, NULL, "08Z", NULL, NULL, "s2"))>>],
     [exists |-> TRUE,
      files |-> <<File("agent-a1", "object",
                       Data(NULL, "/p", NULL, "09", "bad", NULL, NULL, "ghost")),
                  File("s1", "object",
                       Data(NULL, "/lnk", NULL, NULL, NULL, NULL, NULL, NULL))>>]}

Next ==
    \/ Tick
    \/ \E b \in NewBodies : StartTurn(1, b, 5)
    \/ \E b \in ResumeBodies : StartTurn(2, b, 5)
    \/ \E t \in Turns : OpenStream(t)
    \/ \E t \in Turns, m \in CoreMsgs, f \in BOOLEAN :
          Len(turn[t].inbox) < MaxCoreMsgs /\ Recv(t, m, f)
    \/ \E t \in Turns, f \in BOOLEAN : AgentEnd(t, f)
    \/ \E t \in Turns : AgentRaise(t)
    \/ \E root \in LoadRoots : LoadSessions(root)

Spec == Init /\ [][Next]_vars

(***************************************************************************)
(* The server over time: one /chat request after another, /sessions/load   *)
(* requests and settings updates, in any order.                            *)
(***************************************************************************)
KeepMsgs ==
    {Msg("init", "s2", <<>>, NULL), Msg("result", "s1", <<>>, "r"),
     Msg("assistant", NULL, <<TextBlock("a")>>, NULL)}

\* The response of request t is over; the next request takes its place.
NextRequest(t) ==
    /\ turn[t].pc \in {"closed", "rejected"}
    /\ turn' = [turn EXCEPT ![t] = IdleTurn]
    /\ UNCHANGED <<sessions, agent_sessions, user_settings, plan, applied, clock, boot>>

NextKeep ==
    \/ \E b \in NewBodies \cup ResumeBodies : StartTurn(1, b, 5)
    \/ OpenStream(1)
    \/ \E m \in KeepMsgs, f \in BOOLEAN :
          Len(turn[1].inbox) < MaxCoreMsgs + 1 /\ Recv(1, m, f)
    \/ \E f \in BOOLEAN : AgentEnd(1, f)
    \/ AgentRaise(1)
    \/ NextRequest(1)
    \/ \E root \in LoadRoots : LoadSessions(root)
    \/ \E u \in Users, v \in Users, pm \in PermissionModes, sp \in SystemPrompts :
          UpsertUserSettings(u, v, pm, sp)

SpecKeep == Init /\ [][NextKeep]_vars

(***************************************************************************)
(* Two requests racing on one conversation identity, on a server started   *)
(* over an empty root: each opens a conversation (the agent gives both the *)
(* same identity) or resumes the one the other has stored.                 *)
(***************************************************************************)
RaceBodies(t) ==
    IF t = 1
    THEN {[session_id |-> NULL, cwd |-> "/p", message |-> "hello"],
          [session_id |-> "s1", cwd |-> NULL, message |-> "hello"]}
    ELSE {[session_id |-> NULL, cwd |-> "/q", message |-> LongMessage],
          [session_id |-> "s1", cwd |-> "/p", message |-> "  "]}

InitRace == Init /\ sessions = EmptySessions /\ agent_sessions = EmptyAgents

NextRace ==
    \/ Tick
    \/ \E t \in Turns, us \in {0, 5} : \E b \in RaceBodies(t) : StartTurn(t, b, us)
    \/ \E t \in Turns : OpenStream(t)
    \/ \E t \in Turns, m \in CoreMsgs, f \in BOOLEAN :
          Len(turn[t].inbox) < MaxCoreMsgs /\ Recv(t, m, f)
    \/ \E t \in Turns, f \in BOOLEAN : AgentEnd(t, f)
    \/ \E t \in Turns : AgentRaise(t)

SpecRace == InitRace /\ [][NextRace]_vars

(***************************************************************************)
(* Claims about the store's merge rule.                                    *)
(***************************************************************************)
Min(a, b) == IF a <= b THEN a ELSE b
Max(a, b) == IF a >= b THEN a ELSE b

\* C1: two upsertConversation calls on an identity the store did not hold, made
\* in either order, leave created = min(created1, created2) and
\* updated = max(updated1, updated2) in the stored record.
C1_MinMaxAfterTwoUpserts ==
    (plan.kind = "conv" /\ Len(applied) = 2) =>
        LET a == plan.calls[1]
            b == plan.calls[2]
            row == sessions[plan.id]
        IN  /\ row # NoRow
            /\ str_to_dt(row.created_at)
                   = Min(Instant(a.created_at), Instant(b.created_at))
            /\ str_to_dt(row.updated_at)
                   = Max(Instant(a.updated_at), Instant(b.updated_at))
            /\ row.created_at \in {dt_to_str(a.created_at), dt_to_str(b.created_at)}
            /\ row.updated_at \in {dt_to_str(a.updated_at), dt_to_str(b.updated_at)}

\* C1 witness: the call made second carries the later created time and the
\* earlier updated time, in different zones, and the first call's times stay.
C1_Witness ==
    /\ plan.kind = "conv"
    /\ applied = <<2, 1>>
    /\ Instant(plan.calls[1].created_at) > Instant(plan.calls[2].created_at)
    /\ Instant(plan.calls[1].updated_at) < Instant(plan.calls[2].updated_at)
    /\ plan.calls[1].created_at.tz # plan.calls[2].created_at.tz
    /\ sessions[plan.id].created_at = dt_to_str(plan.calls[2].created_at)
    /\ sessions[plan.id].updated_at = dt_to_str(plan.calls[2].updated_at)

\* The parent the agent row holds, NULL when there is no row.
ParentOf(atbl, a) == IF atbl[a] = NoRow THEN NULL ELSE atbl[a].parent_session_id

\* The plan call made by the step just taken (0 if it raised).
LastApplied(q) == IF Len(q) = 0 THEN 0 ELSE q[Len(q)]

RangeKept(tbl, tbl2) ==
    \A k \in DOMAIN tbl :
        (tbl[k] # NoRow /\ tbl2[k] # tbl[k]) =>
            /\ tbl2[k] # NoRow
            /\ str_to_dt(tbl2[k].created_at) <= str_to_dt(tbl[k].created_at)
            /\ str_to_dt(tbl2[k].updated_at) >= str_to_dt(tbl[k].updated_at)

\* C2: in every step of any interleaving of chat turns and bootstrap runs, the
\* stored created time of a conversation or sub-agent record does not
\* increase and its stored updated time does not decrease.
C2_TimesMonotone ==
    [][RangeKept(sessions, sessions') /\ RangeKept(agent_sessions, agent_sessions')]_vars

\* A turn has finished its end-of-stream upsert with a time that is older
\* than the stored updated time and newer than the stored created time of its
\* conversation, after a bootstrap run that stored a sub-agent record.
C2_Witness ==
    \E t \in Turns :
        /\ turn[t].pc = "closed"
        /\ turn[t].writes # <<>>
        /\ turn[t].writes[Len(turn[t].writes)].at = "end"
        /\ sessions[turn[t].session_id] # NoRow
        /\ Instant(turn[t].now) < str_to_dt(sessions[turn[t].session_id].updated_at)
        /\ Instant(turn[t].now) > str_to_dt(sessions[turn[t].session_id].created_at)
        /\ boot.status = 200
        /\ agent_sessions["agent-a1"] # NoRow

\* C5: in every reachable state each stored sub-agent record's parent is
\* absent or the identity of a stored conversation record, and no bootstrap
\* run fails on a declared parent that is not a known conversation: the
\* record is stored with its parent absent instead.
C5_NoDanglingParent ==
    /\ \A a \in DOMAIN agent_sessions :
          agent_sessions[a] # NoRow =>
              \/ agent_sessions[a].parent_session_id = NULL
              \/ /\ agent_sessions[a].parent_session_id \in DOMAIN sessions
                 /\ sessions[agent_sessions[a].parent_session_id] # NoRow
    /\ boot.status # 500

\* A bootstrap run has stored the sub-agent record with no parent while no
\* conversation s2 was known, and a chat turn has written to the store.
C5_Witness ==
    /\ boot.status = 200
    /\ boot.stats.agent_runs = 1
    /\ agent_sessions["agent-a1"] # NoRow
    /\ agent_sessions["agent-a1"].parent_session_id = NULL
    /\ sessions["s2"] = NoRow
    /\ \E t \in Turns : turn[t].writes # <<>>

(***************************************************************************)
(* Claims about one turn's wire events.                                    *)
(***************************************************************************)
TerminalKinds == {"done", "error", "stopped"}

Positions(ev, kinds) == {i \in 1..Len(ev) : ev[i].kind \in kinds}

\* C3: when a turn's agent stream has ended or raised, its events hold exactly
\* one terminal event (done, error or stopped), it is the last event, and
\* done and error are not both among them.
C3_OneTerminalEventLast ==
    \A t \in Turns :
        turn[t].pc = "closed" =>
            LET ev == turn[t].events
            IN  /\ Positions(ev, TerminalKinds) = {Len(ev)}
                /\ Len(ev) > 0
                /\ ~(Positions(ev, {"done"}) # {} /\ Positions(ev, {"error"}) # {})

\* A turn that streamed tokens and then failed: the error event is last.
C3_Witness ==
    /\ turn[1].pc = "closed"
    /\ Positions(turn[1].events, {"token"}) # {}
    /\ Positions(turn[1].events, {"session"}) # {}
    /\ turn[1].events[Len(turn[1].events)].kind = "error"

\* C4 as stated: in every turn's events, for any order and mix of agent
\* messages, a token event comes only after a session event.
C4_NoTokenBeforeSession ==
    \A t \in Turns :
        \A i \in Positions(turn[t].events, {"token"}) :
            \E j \in 1..(i - 1) : turn[t].events[j].kind = "session"

\* C4 as amended: a token event of a message that an initialization message
\* preceded comes after a session event.
C4_NoTokenBeforeSessionAfterInit ==
    \A t \in Turns :
        \A i \in Positions(turn[t].events, {"token"}) :
            (\E k \in 1..(turn[t].events[i].n - 1) : turn[t].inbox[k].cls = "init")
                => \E j \in 1..(i - 1) : turn[t].events[j].kind = "session"

\* A resumed turn received an init message and then reply content.
C4_Witness ==
    /\ turn[1].body.session_id # NULL
    /\ \E i \in Positions(turn[1].events, {"token"}) :
          \E k \in 1..(turn[1].events[i].n - 1) : turn[1].inbox[k].cls = "init"

(***************************************************************************)
(* Claims about the validation of a turn request.                          *)
(***************************************************************************)
\* Turn t's request is answered in this step.
Answered(t) == turn[t].pc = "idle" /\ turn'[t].pc # "idle"

\* The request of turn t is refused with this status in this step: nothing
\* is emitted, the agent is not invoked and the store is as it was.
RefusedWith(t, status) ==
    /\ turn'[t].pc = "rejected"
    /\ turn'[t].status = status
    /\ turn'[t].events = <<>>
    /\ ~turn'[t].invoked
    /\ sessions' = sessions
    /\ agent_sessions' = agent_sessions

\* A refused request never emits, invokes or writes afterwards.
RefusedStaysSilent ==
    \A t \in Turns :
        turn[t].pc = "rejected" =>
            turn[t].events = <<>> /\ ~turn[t].invoked /\ turn[t].writes = <<>>

\* C7: a request whose conversation identity is not in the store is refused
\* with 404 (NotFound) before the stream starts: no event, no agent
\* invocation, the store unchanged.
C7_UnknownIdentityNotFound ==
    /\ [][\A t \in Turns :
            (Answered(t) /\ turn'[t].body.session_id # NULL
                /\ sessions[turn'[t].body.session_id] = NoRow)
            => RefusedWith(t, 404)]_vars
    /\ []RefusedStaysSilent

\* A request for s2 was refused with 404 while s1 is stored.
C7_Witness ==
    /\ turn[1].pc = "rejected"
    /\ turn[1].status = 404
    /\ turn[1].body.session_id = "s2"
    /\ sessions["s1"] # NoRow

\* C8 as stated: a request with a known identity and a working directory
\* whose canonical form differs from that of the stored directory is refused
\* with 400 (InvalidRequest); with the directory omitted or canonically equal
\* the effective directory is the stored one.
C8_MismatchRejected ==
    [][\A t \in Turns :
          (Answered(t) /\ turn'[t].body.session_id # NULL
              /\ sessions[turn'[t].body.session_id] # NoRow)
          => LET cwd == turn'[t].body.cwd
                 stored == sessions[turn'[t].body.session_id].cwd
             IN  IF cwd # NULL /\ Resolve(cwd) # Resolve(stored)
                 THEN RefusedWith(t, 400)
                 ELSE turn'[t].pc = "open" /\ turn'[t].final_cwd = stored]_vars

\* C8 as amended: the request is refused when its directory is non-empty and
\* canonically different; with the directory omitted, empty or canonically
\* equal the effective directory is the stored one.
C8_NonEmptyMismatchRejected ==
    /\ [][\A t \in Turns :
            (Answered(t) /\ turn'[t].body.session_id # NULL
                /\ sessions[turn'[t].body.session_id] # NoRow)
            => LET cwd == turn'[t].body.cwd
                   stored == sessions[turn'[t].body.session_id].cwd
               IN  IF cwd # NULL /\ cwd # "" /\ Resolve(cwd) # Resolve(stored)
                   THEN RefusedWith(t, 400)
                   ELSE /\ turn'[t].pc = "open"
                        /\ turn'[t].final_cwd = stored
                        /\ ~turn'[t].is_new_session]_vars
    /\ []RefusedStaysSilent

\* A request for the stored s1 with another directory was refused with 400.
C8_Witness ==
    /\ turn[1].pc = "rejected"
    /\ turn[1].status = 400
    /\ turn[1].body.session_id = "s1"
    /\ turn[1].body.cwd = "/q"
    /\ sessions["s1"] # NoRow

\* C9: a request without identity is refused with 400 (InvalidRequest), with
\* no event and the store unchanged, when its directory is missing, empty or
\* not an existing directory; otherwise the effective directory is the
\* canonical form of the directory and the turn is flagged new.
C9_NewTurnDirectory ==
    /\ [][\A t \in Turns :
            (Answered(t) /\ turn'[t].body.session_id = NULL)
            => LET cwd == turn'[t].body.cwd
               IN  IF cwd = NULL \/ cwd = "" \/ ~IsDir(cwd)
                   THEN RefusedWith(t, 400)
                   ELSE /\ turn'[t].pc = "open"
                        /\ turn'[t].final_cwd = Resolve(cwd)
                        /\ turn'[t].is_new_session]_vars
    /\ []RefusedStaysSilent

\* A new turn on the link "/lnk" runs in "/p".
C9_Witness ==
    /\ turn[1].pc = "open"
    /\ turn[1].body.session_id = NULL
    /\ turn[1].body.cwd = "/lnk"
    /\ turn[1].final_cwd = "/p"
    /\ turn[1].is_new_session

\* C10: when a turn's agent stream ends with no identity resolved, the turn
\* emits a terminal error event and no done event and makes no upsert: the
\* store holds no record of that turn.
C10_NoIdentityIsError ==
    [][\A t \in Turns :
          (turn[t].pc = "stream" /\ turn'[t].pc = "closed"
              /\ turn'[t].inbox = turn[t].inbox /\ turn[t].session_id = NULL)
          => LET ev == turn'[t].events
             IN  /\ Len(ev) = Len(turn[t].events) + 1
                 /\ ev[Len(ev)].kind = "error"
                 /\ Positions(ev, {"done"}) = {}
                 /\ turn'[t].writes = <<>>
                 /\ sessions' = sessions
                 /\ agent_sessions' = agent_sessions]_vars

\* A new turn streamed reply content, no message named an identity, and the
\* stream ended.
C10_Witness ==
    /\ turn[1].pc = "closed"
    /\ turn[1].session_id = NULL
    /\ Positions(turn[1].events, {"token"}) # {}
    /\ turn[1].events[Len(turn[1].events)].kind = "error"
    /\ turn[1].events[Len(turn[1].events)].message = "Claude did not return session_id"

(***************************************************************************)
(* Claims about failures inside the stream.                                *)
(***************************************************************************)
\* C11: once the stream of a turn has started, an exception raised by the
\* agent (at any message position) or by a persistence call (the init-time
\* insert or the end-of-stream upsert) closes the stream with exactly one error
\* event, which carries a message string and is the last event; no done event
\* is in the stream.
C11_FailureEndsWithOneError ==
    \A t \in Turns :
        turn[t].fault \in {"agent", "insert", "upsert"} =>
            LET ev == turn[t].events
            IN  /\ turn[t].pc = "closed"
                /\ turn[t].invoked
                /\ ev # <<>>
                /\ Positions(ev, {"error"}) = {Len(ev)}
                /\ Len(ev[Len(ev)].message) > 0
                /\ Positions(ev, {"done", "stopped"}) = {}

\* The end-of-stream upsert fails after tokens were streamed.
C11_Witness ==
    /\ turn[1].fault = "upsert"
    /\ Positions(turn[1].events, {"token"}) # {}
    /\ Positions(turn[1].events, {"session"}) # {}

\* C12: a turn cancelled while in flight is closed with a stopped event as its
\* only terminal event (no done, no error), which is its last event; if an
\* identity had been resolved, the end-of-stream upsert of that identity was
\* attempted as the turn's last write, and when the attempt did not fail the
\* conversation's record is in the store with an updated time not before the
\* turn's.
C12_CancelledTurnStopsAndUpserts ==
    \A t \in Turns :
        turn[t].fault = "cancelled" =>
            LET tr == turn[t]
                ev == tr.events
                w == tr.writes
            IN  /\ tr.pc = "closed"
                /\ ev # <<>>
                /\ Positions(ev, TerminalKinds) = {Len(ev)}
                /\ ev[Len(ev)].kind = "stopped"
                /\ ev[Len(ev)].session_id = tr.session_id
                /\ tr.session_id # NULL =>
                      /\ w # <<>>
                      /\ w[Len(w)].at \in {"stop", "stop-failed"}
                      /\ w[Len(w)].session_id = tr.session_id
                      /\ w[Len(w)].at = "stop" =>
                            /\ sessions[tr.session_id] # NoRow
                            /\ str_to_dt(sessions[tr.session_id].updated_at)
                                  >= Instant(tr.now)

\* A new conversation whose identity came with a result message (so nothing
\* was stored for it yet) is cancelled after a token, and the upsert stores it.
C12_Witness ==
    /\ turn[1].fault = "cancelled"
    /\ turn[1].is_new_session
    /\ turn[1].session_id = "s1"
    /\ Positions(turn[1].events, {"token"}) # {}
    /\ Len(turn[1].writes) = 1
    /\ turn[1].writes[1].at = "stop"

(***************************************************************************)
(* Claims about what a reader of the store sees during a turn.             *)
(***************************************************************************)
\* The identities a new-conversation turn has announced with the session event
\* of an init message that set the turn's identity.
AnnouncedByInit(tr) ==
    {tr.events[i].session_id : i \in
        {j \in 1..Len(tr.events) :
            /\ tr.events[j].kind = "session"
            /\ tr.events[j].is_new
            /\ tr.events[j].session_id # NULL
            /\ tr.inbox[tr.events[j].n].cls = "init"}}

\* C13: in a new-conversation turn, the step that emits the session event of an
\* init message reporting identity I (none being resolved before) leaves a
\* record for I with the derived title and the effective directory in the
\* store, and from then on, whatever other requests do, the store holds a
\* record for I (getConversation(I) finds it).
C13_RecordBeforeSessionEvent ==
    /\ [][\A t \in Turns :
            (turn[t].is_new_session /\ AnnouncedByInit(turn[t]) = {}) =>
                \A I \in AnnouncedByInit(turn'[t]) :
                    /\ sessions'[I] # NoRow
                    /\ sessions'[I].title = new_session_title(turn[t].body.message)
                    /\ sessions'[I].cwd = turn[t].final_cwd]_vars
    /\ [](\A t \in Turns :
            turn[t].is_new_session =>
                \A I \in AnnouncedByInit(turn[t]) : fetch_session(sessions, I) # NoRow)

\* The session event of a new conversation is out, its turn is still
\* streaming, and another request has been answered since.
C13_Witness ==
    /\ turn[1].pc = "stream"
    /\ AnnouncedByInit(turn[1]) = {"s1"}
    /\ turn[2].pc = "closed"
    /\ boot.status = 200

(***************************************************************************)
(* Claims about concurrent turns on one identity.                          *)
(***************************************************************************)
\* The writes the turns have made on identity I so far.
WritesOn(I) ==
    UNION {{w \in Range(turn[t].writes) : w.session_id = I} : t \in Turns}

\* C14: when the only writers of an identity are turns (two of them, racing,
\* each writing once or twice), then in every interleaving of their writes and
\* at every moment the identity's record is there, its created time is the
\* minimum and its updated time the maximum of all timestamps written, and its
\* title and directory are those of the write applied last: each write leaves
\* its own title and directory together in the record.
C14_ConcurrentTurnsConverge ==
    /\ [](\A I \in SessionIds :
            WritesOn(I) # {} =>
                /\ sessions[I] # NoRow
                /\ \A w \in WritesOn(I) :
                      /\ str_to_dt(sessions[I].created_at) <= Instant(w.now)
                      /\ str_to_dt(sessions[I].updated_at) >= Instant(w.now)
                /\ \E w \in WritesOn(I) :
                      str_to_dt(sessions[I].created_at) = Instant(w.now)
                /\ \E w \in WritesOn(I) :
                      str_to_dt(sessions[I].updated_at) = Instant(w.now)
                /\ \E w \in WritesOn(I) :
                      sessions[I].title = w.title /\ sessions[I].cwd = w.cwd)
    /\ [][\A t \in Turns :
            Len(turn'[t].writes) > Len(turn[t].writes) =>
                LET w == turn'[t].writes[Len(turn'[t].writes)]
                IN  /\ sessions'[w.session_id].title = w.title
                    /\ sessions'[w.session_id].cwd = w.cwd]_vars

\* Both turns opened a conversation, got the same identity, wrote twice each
\* at different times with different titles and directories, and the turn that
\* started later finished first.
C14_Witness ==
    /\ turn[1].pc = "closed" /\ turn[2].pc = "closed"
    /\ Len(turn[1].writes) = 2 /\ Len(turn[2].writes) = 2
    /\ turn[1].writes[1].cwd # turn[2].writes[1].cwd
    /\ turn[1].writes[1].title # turn[2].writes[1].title
    /\ Instant(turn[1].now) < Instant(turn[2].now)
    /\ sessions["s1"].cwd = turn[1].final_cwd
    /\ str_to_dt(sessions["s1"].updated_at) = Instant(turn[2].now)

(***************************************************************************)
(* Claims about the bootstrapper.                                          *)
(***************************************************************************)
\* C15: every run of the bootstrapper over an unchanged root after the first
\* returns the conversation count and the sub-agent count the first run
\* returned, and leaves the sets of stored conversation and sub-agent
\* identities as the first run left them (one record per identity: both tables
\* are keyed by identity).
C15_SecondRunSameCountsSameIdentities ==
    \A i \in 2..Len(applied) :
        /\ applied[i].boot.status = applied[1].boot.status
        /\ applied[i].boot.stats = applied[1].boot.stats
        /\ applied[i].sessions = applied[1].sessions
        /\ applied[i].agent_sessions = applied[1].agent_sessions
        /\ i = Len(applied) =>
              /\ StoredIds(sessions) = applied[1].sessions
              /\ StoredIds(agent_sessions) = applied[1].agent_sessions

\* Two runs at different times over a root with a conversation and a
\* sub-agent run, on a store that held nothing before the first.
C15_Witness ==
    /\ Len(applied) = 2
    /\ applied[2].boot.status = 200
    /\ applied[2].boot.stats = [sessions |-> 1, agent_runs |-> 1]
    /\ applied[1].sessions = {"s2"}
    /\ clock = 9

(***************************************************************************)
(* Claims about the order of a turn's events.                              *)
(***************************************************************************)
\* A new-conversation turn whose agent stream began with an init message
\* reporting an identity and ended normally, with done.
CompletedNormally(tr) ==
    /\ tr.is_new_session
    /\ tr.pc = "closed"
    /\ tr.events # <<>>
    /\ tr.events[Len(tr.events)].kind = "done"
    /\ tr.inbox # <<>>
    /\ tr.inbox[1].cls = "init"
    /\ tr.inbox[1].sid # NULL

KindRank(kind) ==
    CASE kind = "session" -> 1 [] kind = "token" -> 2 [] kind = "message" -> 3
      [] OTHER -> 4

\* The record of the turn's identity carries the title derived from the
\* request's message text.
StoredWithDerivedTitle(tr) ==
    /\ sessions[tr.session_id] # NoRow
    /\ sessions[tr.session_id].title = new_session_title(tr.body.message)

\* C16 as stated: a new-conversation turn that completes normally emits the
\* session event with is_new = TRUE, then all its token events, then all its
\* message events, then done, and the store holds the identity's record with
\* the derived title.
C16_SessionTokensMessagesDone ==
    \A t \in Turns :
        CompletedNormally(turn[t]) =>
            LET ev == turn[t].events
            IN  /\ ev[1].kind = "session" /\ ev[1].is_new
                /\ \A i \in 1..Len(ev), j \in 1..Len(ev) :
                      i < j => KindRank(ev[i].kind) <= KindRank(ev[j].kind)
                /\ StoredWithDerivedTitle(turn[t])

\* C16, amended: such a turn emits the session event with is_new = TRUE first
\* and done last and only there; in between, the events follow the agent's
\* messages in arrival order, each message giving its session event (if it is
\* an init message), then its token events, then its own message event, so
\* message events are interleaved with token events; and the store holds the
\* identity's record with the derived title.
C16_PerMessageOrderThenDone ==
    \A t \in Turns :
        CompletedNormally(turn[t]) =>
            LET ev == turn[t].events
                body == 1..(Len(ev) - 1)
            IN  /\ ev[1].kind = "session" /\ ev[1].is_new
                /\ ev[1].session_id = turn[t].inbox[1].sid
                /\ Positions(ev, {"done"}) = {Len(ev)}
                /\ \A i \in body : ev[i].kind \in {"session", "token", "message"}
                /\ \A i \in body, j \in body :
                      i < j =>
                        \/ ev[i].n < ev[j].n
                        \/ /\ ev[i].n = ev[j].n
                           /\ KindRank(ev[i].kind) <= KindRank(ev[j].kind)
                /\ \A i \in body :
                      ev[i].kind = "token" =>
                        \E j \in body : j > i /\ ev[j].kind = "message" /\ ev[j].n = ev[i].n
                /\ StoredWithDerivedTitle(turn[t])

\* init, reply content, result, end of stream: the init message's mirror
\* event precedes the token.
C16_Witness ==
    /\ CompletedNormally(turn[1])
    /\ Len(turn[1].inbox) = 3
    /\ turn[1].inbox[2].cls = "assistant"
    /\ turn[1].inbox[3].cls = "result"
    /\ Len(turn[1].body.message) > TitleMax
    /\ \E i \in 1..Len(turn[1].events), j \in 1..Len(turn[1].events) :
          i < j /\ turn[1].events[i].kind = "message" /\ turn[1].events[j].kind = "token"

(***************************************************************************)
(* Claims about title derivation.                                          *)
(***************************************************************************)
\* C17: for a message text whose whitespace-trimmed form is T, the derived
\* title is T itself when T has 1 to 30 characters, the first 30 characters of
\* T followed by the ellipsis marker "..." when T has 31 or more, and the
\* placeholder title when T is empty.
C17_TitleDerivation ==
    applied # <<>> =>
        LET T == plan.calls[2]
            title == applied[1]
        IN  /\ T = "" => title = "NEW"
            /\ (Len(T) >= 1 /\ Len(T) <= 30) => title = T
            /\ Len(T) >= 31 => title = SubSeq(T, 1, 30) \o "..."

\* A text of exactly 30 characters between leading and trailing whitespace.
C17_Witness ==
    /\ applied # <<>>
    /\ Len(plan.calls[2]) = 30
    /\ plan.calls[1] # "" /\ plan.calls[3] # ""
    /\ applied[1] = plan.calls[2]

(***************************************************************************)
(* Claims about files with malformed lines.  What a file is expected to    *)
(* yield is stated over all its lines.                                     *)
(***************************************************************************)
\* The lines of a file that can be opened.
LinesOf(file) ==
    IF file.kind \in {"unreadable", "empty"} THEN <<>>
    ELSE <<Line(file.kind, file.data)>> \o file.rest

\* A well-formed record that declares a working directory.
DeclaresCwd(line) ==
    line.kind = "object" /\ Truthy(PyOr(line.data.cwd, line.data.project_path))

\* A file some record of which declares a working directory.
Indexable(file) == \E i \in 1..Len(LinesOf(file)) : DeclaresCwd(LinesOf(file)[i])

\* An indexable file with a malformed line somewhere.
IsMixed(file) ==
    /\ Indexable(file)
    /\ \E i \in 1..Len(LinesOf(file)) : LinesOf(file)[i].kind = "malformed"

\* The identity of the file is among those the k-th answer left stored.
StoredAfter(file, k) ==
    IF is_agent_session_file(file.stem) THEN file.stem \in applied[k].agent_sessions
    ELSE file.stem \in applied[k].sessions

\* C18: after a bootstrap run over an existing root, every file that mixes
\* malformed lines with valid ones (in any positions, a malformed first line
\* included) has its identity stored, and a root holding just that file is
\* answered with a count of exactly one.
C18_MixedFileCountedOnce ==
    \A k \in 1..Len(applied) :
        (plan.kind = "root" /\ plan.id) =>
            \A i \in 1..Len(plan.calls) :
                IsMixed(plan.calls[i]) =>
                    /\ StoredAfter(plan.calls[i], k)
                    /\ Len(plan.calls) = 1 =>
                          applied[k].boot.stats.sessions
                            + applied[k].boot.stats.agent_runs = 1

\* C19: a bootstrap request over a root that does not exist is refused (the
\* FileNotFoundError of line 290, answered with status 400) and leaves both
\* tables as they were; over an existing root the request succeeds whatever
\* unreadable, empty, malformed or directory-less content it meets, and the
\* identity of every indexable file under the root is stored afterwards.
C19_BootstrapDegradesBySkipping ==
    [][Len(applied') > Len(applied) =>
          IF ~plan.id
          THEN /\ boot'.status = 400
               /\ sessions' = sessions
               /\ agent_sessions' = agent_sessions
          ELSE /\ boot'.status = 200
               /\ \A i \in 1..Len(plan.calls) :
                     Indexable(plan.calls[i]) =>
                        plan.calls[i].stem \in
                            StoredIds(IF is_agent_session_file(plan.calls[i].stem)
                                      THEN agent_sessions' ELSE sessions')]_vars

(***************************************************************************)
(* Claims about what the store keeps.                                      *)
(***************************************************************************)
\* C20: no step of the server (a step of a turn, a bootstrap run, a settings
\* update) removes a conversation or a sub-agent record: the stored
\* conversation identities and the stored sub-agent identities before the step
\* are all stored after it.
C20_IdentitiesOnlyGrow ==
    [][/\ StoredIds(sessions) \subseteq StoredIds(sessions')
       /\ StoredIds(agent_sessions) \subseteq StoredIds(agent_sessions')]_vars

\* A conversation a turn stored and one the startup scan stored are both there
\* after a bootstrap run over a root that holds neither, a second turn and a
\* settings update.
C20_Witness ==
    /\ StoredIds(sessions) = {"s1", "s2"}
    /\ StoredIds(agent_sessions) = {"agent-a1"}
    /\ boot.status = 200
    /\ user_settings["admin"] # NoRow
    /\ turn[1].pc = "closed"
    /\ turn[1].body.session_id = "s2"
    /\ turn[1].writes # <<>>


(***************************************************************************)
(* Claims about the read routes.                                           *)
(***************************************************************************)
\* C21: the list GET /sessions returns holds every stored conversation exactly
\* once, and of any two adjacent records the earlier one's updated time is
\* greater than or equal to the later one's.
C21_ListedOnceNewestFirst ==
    applied # <<>> =>
        LET q == applied[1]
        IN  /\ {q[i].session_id : i \in DOMAIN q} = StoredIds(sessions)
            /\ Len(q) = Cardinality(StoredIds(sessions))
            /\ \A i \in 1..(Len(q) - 1) : q[i].updated_at >= q[i + 1].updated_at

\* C21 witness: three conversations are listed, their updated times strictly
\* falling, one stored with a fraction and one without.
C21_Witness ==
    /\ applied # <<>>
    /\ Len(applied[1]) = 3
    /\ applied[1][1].updated_at > applied[1][2].updated_at
    /\ applied[1][2].updated_at > applied[1][3].updated_at
    /\ applied[1][1].updated_at % 10 # applied[1][2].updated_at % 10
    /\ applied[1][1].created_at < applied[1][2].created_at


\* The index of the last upsert for user u among the first n requests, 0 if none.
LastPut(u, n) ==
    LET puts == {i \in 1..n : applied[i].op = "put" /\ applied[i].user_id = u}
    IN  IF puts = {} THEN 0 ELSE CHOOSE i \in puts : \A j \in puts : j <= i

\* C22: a read of user u's settings returns the permission mode and the system
\* prompt of the most recent upsert for u, whatever was upserted for other
\* users in between, and nothing when no upsert for u was made.
C22_SettingsLastWriteWins ==
    plan.kind = "settings" =>
        \A i \in 1..Len(applied) :
            applied[i].op = "get" =>
                LET p == LastPut(applied[i].user_id, i - 1)
                IN  IF p = 0 THEN applied[i].settings = NoRow
                    ELSE /\ applied[i].settings # NoRow
                         /\ applied[i].settings.permission_mode
                                = applied[p].permission_mode
                         /\ applied[i].settings.system_prompt
                                = applied[p].system_prompt

\* C22 witness: admin stores the prompt "null", alice then stores other
\* settings, and admin reads back what admin stored.
C22_Witness ==
    /\ plan.kind = "settings"
    /\ Len(applied) = 3
    /\ applied[1].op = "put" /\ applied[1].user_id = "admin"
    /\ applied[1].system_prompt = "null" /\ applied[1].permission_mode = "plan"
    /\ applied[2].op = "put" /\ applied[2].user_id = "alice"
    /\ applied[2].system_prompt = NULL /\ applied[2].permission_mode = "default"
    /\ applied[3].op = "get" /\ applied[3].user_id = "admin"
    /\ applied[3].settings # NoRow
    /\ applied[3].settings.system_prompt = "null"


(***************************************************************************)
(* Claims about the end of a turn.                                         *)
(***************************************************************************)
\* The step closes turn t with a done event.
EndsWithDone(t) ==
    /\ turn[t].pc = "stream"
    /\ turn'[t].pc = "closed"
    /\ turn'[t].events # <<>>
    /\ turn'[t].events[Len(turn'[t].events)].kind = "done"

\* C23: the end-of-stream upsert of a turn that ends with done carries the
\* turn-start time as the created-time candidate and the time the stream
\* ended as the updated-time candidate, so that right after done the stored
\* updated time is no earlier than the reading of the clock at the stream's end.
C23_UpdatedAtLeastStreamEnd ==
    [][\A t \in Turns :
          EndsWithDone(t) =>
              /\ turn'[t].writes # <<>>
              /\ turn'[t].writes[Len(turn'[t].writes)].at = "end"
              /\ turn'[t].writes[Len(turn'[t].writes)].now = turn[t].now
              /\ str_to_dt(sessions'[turn'[t].session_id].updated_at) >= 10 * clock]_vars


\* C24: a resumed turn does not change the stored title of its conversation:
\* the title its end-of-stream upsert writes is the title on record right
\* before that upsert, whatever a bootstrap run or another turn wrote under
\* the same identity since the turn started.
C24_ResumedTurnKeepsTitle ==
    [][\A t \in Turns :
          (EndsWithDone(t) /\ ~turn[t].is_new_session) =>
              /\ sessions[turn[t].session_id] # NoRow
              /\ sessions'[turn[t].session_id].title
                     = sessions[turn[t].session_id].title]_vars


(***************************************************************************)
(* Claims about the translation of agent messages into wire events.        *)
(***************************************************************************)
\* The positions of the session events that message n of the turn produced.
SessionEventsAt(tr, n) ==
    {i \in DOMAIN tr.events : tr.events[i].kind = "session" /\ tr.events[i].n = n}

\* The positions of all session events of the turn.
SessionEvents(tr) == {i \in DOMAIN tr.events : tr.events[i].kind = "session"}

\* Some event before position i carried an identity.
IdentitySeenBefore(tr, i) ==
    \E j \in 1..(i - 1) :
        tr.events[j].kind \in {"session", "token", "message"}
            /\ tr.events[j].session_id # NULL

PayloadIds(m) ==
    IF m.cls = "none" THEN {}
    ELSE ({m.sid} \cup {m.blocks[i].sid : i \in DOMAIN m.blocks}) \ {NULL}

\* Message n of the turn is a result message that carries an identity, on a
\* new-conversation turn that received no init message.
ResultCarriesIdentity(tr, n) ==
    /\ tr.invoked /\ tr.is_new_session
    /\ \A k \in 1..Len(tr.inbox) : tr.inbox[k].cls # "init"
    /\ n \in 1..Len(tr.inbox)
    /\ tr.inbox[n].cls = "result" /\ tr.inbox[n].sid # NULL

IsTextBlock(b) == b.type = "text"
IsTokenEvent(e) == e.kind = "token"
NonEmptyText(x) == x # ""

\* The text fragments of one reply-content message, empty ones included.
BlockTexts(blocks) ==
    LET tb == SelectSeq(blocks, IsTextBlock)
    IN  [i \in 1..Len(tb) |-> tb[i].text]

RECURSIVE ReplyFragments(_)
\* The text fragments of the reply-content messages of an inbox, in order.
ReplyFragments(inbox) ==
    IF inbox = <<>> THEN <<>>
    ELSE (IF Head(inbox).cls = "assistant" THEN BlockTexts(Head(inbox).blocks)
          ELSE <<>>) \o ReplyFragments(Tail(inbox))

\* The texts of the token events of a turn, in order.
TokenTexts(tr) ==
    LET te == SelectSeq(tr.events, IsTokenEvent)
    IN  [i \in 1..Len(te) |-> te[i].text]

\* C27: the texts of a turn's token events are, in the same order, the
\* non-empty text fragments of the reply-content messages the turn received:
\* one token event per non-empty fragment, none for an empty one.
C27_TokensAreNonEmptyFragments ==
    \A t \in Turns :
        turn[t].invoked =>
            /\ TokenTexts(turn[t])
                   = SelectSeq(ReplyFragments(turn[t].inbox), NonEmptyText)
            /\ \A i \in DOMAIN turn[t].events :
                   turn[t].events[i].kind = "token" => turn[t].events[i].text # ""

\* C27 witness: a reply-content message with an empty fragment, a tool use and
\* the fragment "bc", then one with the fragment "a": two token events.
C27_Witness ==
    /\ Len(turn[1].inbox) = 3
    /\ ReplyFragments(turn[1].inbox) = <<"", "bc", "a">>
    /\ TokenTexts(turn[1]) = <<"bc", "a">>
    /\ turn[1].pc = "closed" /\ turn[1].fault = NULL


RECURSIVE SumLen(_)
\* The total length of a sequence of texts.
SumLen(texts) == IF texts = <<>> THEN 0 ELSE Len(Head(texts)) + SumLen(Tail(texts))

\* The positions of the result messages that carry a final result string.
ResultStrings(tr) ==
    {n \in 1..Len(tr.inbox) : tr.inbox[n].cls = "result" /\ tr.inbox[n].result # NULL}

\* The first of them (0 if there is none).
FirstResultString(tr) ==
    IF ResultStrings(tr) = {} THEN 0
    ELSE CHOOSE n \in ResultStrings(tr) : \A k \in ResultStrings(tr) : n <= k

\* The turn ended with done.
EndedWithDone(tr) ==
    /\ tr.pc = "closed" /\ tr.events # <<>>
    /\ tr.events[Len(tr.events)].kind = "done"

\* C28 as stated: the length in done is the total length of the turn's token
\* texts; with no token event it is the length of the first final result
\* string, and 0 if there is none.
C28_LengthIsTokenTotal ==
    \A t \in Turns :
        LET tr == turn[t]
        IN  EndedWithDone(tr) =>
                tr.events[Len(tr.events)].length
                    = IF TokenTexts(tr) # <<>> THEN SumLen(TokenTexts(tr))
                      ELSE IF FirstResultString(tr) # 0
                           THEN Len(tr.inbox[FirstResultString(tr)].result)
                      ELSE 0

\* C28, amended: the length in done is the total length of the turn's token
\* texts, plus the length of the first final result string when the result
\* message carrying it arrived before any token event was emitted.
C28_LengthIsTokensPlusEarlyResult ==
    \A t \in Turns :
        LET tr == turn[t]
            n0 == FirstResultString(tr)
            early == n0 # 0 /\ \A i \in DOMAIN tr.events :
                                   tr.events[i].kind = "token" => tr.events[i].n > n0
        IN  EndedWithDone(tr) =>
                tr.events[Len(tr.events)].length
                    = SumLen(TokenTexts(tr))
                        + (IF early THEN Len(tr.inbox[n0].result) ELSE 0)

\* C28 witness: a result message with the string "r" arrives first, reply
\* content "bc" follows, and done carries length 3.
C28_Witness ==
    /\ EndedWithDone(turn[1])
    /\ FirstResultString(turn[1]) = 1
    /\ TokenTexts(turn[1]) = <<"bc">>
    /\ turn[1].events[Len(turn[1].events)].length = 3


\* The positions of the message events that message n of the turn produced.
MessageEventsAt(tr, n) ==
    {i \in DOMAIN tr.events : tr.events[i].kind = "message" /\ tr.events[i].n = n}

\* Message events come in the arrival order of their messages.
MirrorInArrivalOrder(tr) ==
    \A i \in DOMAIN tr.events, j \in DOMAIN tr.events :
        (i < j /\ tr.events[i].kind = "message" /\ tr.events[j].kind = "message")
            => tr.events[i].n < tr.events[j].n

\* The step hands turn t a message without projection and changes nothing
\* else: the turn goes on, with the same identity, buffer, events and writes.
UnprojectedIsInert(t) ==
    (/\ Len(turn'[t].inbox) = Len(turn[t].inbox) + 1
     /\ turn'[t].inbox[Len(turn'[t].inbox)].cls = "none") =>
        /\ turn'[t] = [turn[t] EXCEPT !.inbox = turn'[t].inbox]
        /\ turn'[t].pc = "stream"
        /\ sessions' = sessions

\* C29 as stated: every message of a turn that has a projection has exactly
\* one message event, and a message without one has none.
C29_EveryProjectionMirrored ==
    \A t \in Turns :
        \A n \in 1..Len(turn[t].inbox) :
            Cardinality(MessageEventsAt(turn[t], n))
                = IF turn[t].inbox[n].cls # "none" THEN 1 ELSE 0

\* C29, amended: every message of a turn that has a projection, other than an
\* init message whose insert raised, has exactly one message event, the
\* message events come in arrival order, and a message without a projection
\* has no message event and leaves the turn running with its identity,
\* buffer and events as they were.
C29_ProjectionMirroredUnlessRaised ==
    /\ [](\A t \in Turns :
            /\ MirrorInArrivalOrder(turn[t])
            /\ \A n \in 1..Len(turn[t].inbox) :
                  Cardinality(MessageEventsAt(turn[t], n))
                      = IF /\ turn[t].inbox[n].cls # "none"
                           /\ ~(turn[t].fault = "insert" /\ n = Len(turn[t].inbox))
                        THEN 1 ELSE 0)
    /\ [][\A t \in Turns : UnprojectedIsInert(t)]_vars

\* C29 witness: an init message, a message without projection and a result
\* message; two message events, for the first and the third, then done.
C29_Witness ==
    /\ EndedWithDone(turn[1])
    /\ Len(turn[1].inbox) = 3
    /\ turn[1].inbox[1].cls = "init"
    /\ turn[1].inbox[2].cls = "none"
    /\ turn[1].inbox[3].cls = "result"
    /\ MessageEventsAt(turn[1], 1) # {} /\ MessageEventsAt(turn[1], 2) = {}
    /\ MessageEventsAt(turn[1], 3) # {}


(***************************************************************************)
(* Claims about parent links made by a bootstrap run.                      *)
(***************************************************************************)
\* The sub-agent files of the root under test that a scan yields, in scan order.
ScannedAgentRuns ==
    SelectSeq(discover_session_metadata_from_files(plan.calls, Now(5)), IsAgentRun)

\* The positions in runs of the last file of each sub-agent identity.
LastOfIdentity(runs) ==
    {i \in DOMAIN runs :
        \A j \in DOMAIN runs : j > i => runs[j].session_id # runs[i].session_id}

RECURSIVE LinkedParent(_, _, _, _)
\* The parent of sub-agent a after the files of runs, in order, when each
\* file with a declared parent among known links it and any other file
\* leaves the parent as it is.
LinkedParent(runs, a, parent, known) ==
    IF runs = <<>> THEN parent
    ELSE LinkedParent(Tail(runs), a,
             IF Head(runs).session_id = a /\ Head(runs).parent_session_id \in known
             THEN Head(runs).parent_session_id ELSE parent,
             known)

\* The step is a bootstrap run over the root under test that was answered.
BootstrapRun == plan.kind = "root" /\ applied' # applied /\ boot'.status = 200

\* C30 as stated: after a bootstrap run, a sub-agent file whose declared
\* parent is a conversation discovered in the scan or stored before it has
\* that parent linked, and one whose declared parent is neither has its
\* record stored with the parent absent.
C30_UnknownParentStoredAbsent ==
    [][BootstrapRun =>
          \A i \in LastOfIdentity(ScannedAgentRuns) :
              LET md == ScannedAgentRuns[i]
              IN  md.parent_session_id # NULL =>
                      ParentOf(agent_sessions', md.session_id)
                        = IF md.parent_session_id \in StoredIds(sessions')
                          THEN md.parent_session_id ELSE NULL]_vars

\* C30, amended: after a bootstrap run, a sub-agent file whose declared parent
\* is a conversation discovered in the scan (before or after the sub-agent
\* file) or stored before it has that parent linked; a file whose declared
\* parent is neither links nothing and leaves the record's parent as it was,
\* absent for a record the store did not hold.
C30_KnownParentLinkedUnknownIgnored ==
    [][BootstrapRun =>
          \A a \in DOMAIN agent_sessions :
              ParentOf(agent_sessions', a)
                  = LinkedParent(ScannedAgentRuns, a, ParentOf(agent_sessions, a),
                                 StoredIds(sessions) \cup
                                     {md.session_id :
                                         md \in {m \in Range(discover_session_metadata_from_files(
                                                                plan.calls, Now(5))) :
                                                     IsPrimary(m)}})]_vars

\* C30 witness: the scan met the sub-agent file before the file of the
\* conversation it names, which the store did not hold, and the link is made.
C30_Witness ==
    /\ plan.kind = "root" /\ Len(applied) = 1 /\ boot.status = 200
    /\ Len(plan.calls) = 2
    /\ plan.calls[1].stem = "agent-a1" /\ plan.calls[1].data.parent_session_id = "s2"
    /\ plan.calls[2].stem = "s2"
    /\ boot.stats = [sessions |-> 1, agent_runs |-> 1]
    /\ ParentOf(agent_sessions, "agent-a1") = "s2"


(***************************************************************************)
(* Claims about what a bootstrap run counts and extracts.                  *)
(***************************************************************************)
\* The base name carries the sub-agent prefix.
CarriesAgentPrefix(stem) == Len(stem) >= 6 /\ SubSeq(stem, 1, 6) = "agent-"

\* The positions of the files of the root under test that yield metadata.
YieldingFiles ==
    {i \in 1..Len(plan.calls) :
        extract_session_metadata_from_file(plan.calls[i], Now(5)) # NoMetadata}

NoTimestamp == [t |-> 0, us |-> 0, tz |-> "none"]

\* The instants of the parseable timestamps the records of a file carry.
UsableTimestamps(file) ==
    {Instant(parse_iso_timestamp(v, NoTimestamp)) :
        v \in {w \in UNION {{LinesOf(file)[j].data.created_at,
                              LinesOf(file)[j].data.updated_at} :
                                j \in {k \in 1..Len(LinesOf(file)) :
                                          LinesOf(file)[k].kind = "object"}} :
                  parse_iso_timestamp(w, NoTimestamp) # NoTimestamp}}

\* The row the store holds for the identity of a file.
RowOf(file, stbl, atbl) ==
    IF CarriesAgentPrefix(file.stem) THEN atbl[file.stem] ELSE stbl[file.stem]

\* C32: a bootstrap run that stores a record for a file the store did not
\* know (the only file of that identity in the scan) stores as created time
\* the earliest and as updated time the latest parseable timestamp of the
\* file's records, and the current time for both only if there is none.
C32_BoundsAreEarliestAndLatest ==
    [][BootstrapRun =>
          \A i \in YieldingFiles :
              (/\ RowOf(plan.calls[i], sessions, agent_sessions) = NoRow
               /\ \A j \in 1..Len(plan.calls) :
                      j # i => plan.calls[j].stem # plan.calls[i].stem)
              => \E row \in {RowOf(plan.calls[i], sessions', agent_sessions')} :
                   \E U \in {UsableTimestamps(plan.calls[i])} :
                      IF U = {}
                      THEN /\ str_to_dt(row.created_at) = Instant(Now(5))
                           /\ str_to_dt(row.updated_at) = Instant(Now(5))
                      ELSE /\ \A u \in U : str_to_dt(row.created_at) <= u
                           /\ str_to_dt(row.created_at) \in U
                           /\ \A u \in U : str_to_dt(row.updated_at) >= u
                           /\ str_to_dt(row.updated_at) \in U]_vars


(***************************************************************************)
(* Claims about the stored records in every reachable state.               *)
(***************************************************************************)
\* C33: the working directory of every stored conversation record is its own
\* canonical form.
C33_StoredCwdIsCanonical ==
    \A s \in StoredIds(sessions) : Resolve(sessions[s].cwd) = sessions[s].cwd


(***************************************************************************)
(* Connections (database.py, db_connection): the persistence calls of the  *)
(* plan are made one after the other, each a "with db_connection()" block  *)
(* taken statement by statement.  applied holds one record per call made:  *)
(* the connection the call opened, the transaction pending on it, where    *)
(* the call stands and the table as the call found it.                     *)
(***************************************************************************)
MaxCalls == 2

\* No statement of the connection has written yet.
NoTxn == [none |-> TRUE]

\* persist_session_metadata and fetch_session calls on one identity.
ConnCalls ==
    {[op |-> "persist", title |-> t, at |-> d] :
        t \in Titles, d \in {[t |-> 8, us |-> 0, tz |-> "utc"], [t |-> 9, us |-> 5, tz |-> "utc"]}}
    \cup {[op |-> "fetch", title |-> NULL, at |-> [t |-> 0, us |-> 0, tz |-> "utc"]]}

ConnPlan(s, q) == [kind |-> "conn", id |-> s, calls |-> q]

InitConn ==
    /\ user_settings = EmptySettings
    /\ sessions = EmptySessions
    /\ agent_sessions = EmptyAgents
    /\ \E s \in SessionIds, n \in 1..MaxCalls :
          \E q \in [1..n -> ConnCalls] : plan = ConnPlan(s, q)
    /\ applied = <<>>
    /\ clock = 8
    /\ turn = [t \in Turns |-> IdleTurn]
    /\ boot = NoBoot

\* The call in progress, or the last one made.
CurrentCall == applied[Len(applied)]

CallOver(c) == c.pc \in {"returned", "raised"}

\* Lines 12-15: sqlite3.connect gives the next call a connection of its own,
\* or raises before there is one.
Connect(fail) ==
    /\ plan.kind = "conn"
    /\ Len(applied) < Len(plan.calls)
    /\ applied # <<>> => CallOver(CurrentCall)
    /\ applied' = Append(applied,
                    [state |-> IF fail THEN "none" ELSE "open",
                     txn |-> NoTxn,
                     pc |-> IF fail THEN "raised" ELSE "body",
                     raising |-> fail,
                     before |-> sessions])
    /\ UNCHANGED <<sessions, agent_sessions, user_settings, plan, clock, turn, boot>>

\* The statement in the with block: the upsert writes inside the connection's
\* transaction, the SELECT writes nothing; either may raise.
Execute(fail) ==
    /\ plan.kind = "conn"
    /\ applied # <<>> /\ CurrentCall.pc = "body"
    /\ LET c == plan.calls[Len(applied)]
       IN  applied' =
             [applied EXCEPT ![Len(applied)] =
                IF fail THEN [@ EXCEPT !.pc = "finally", !.raising = TRUE]
                ELSE [@ EXCEPT !.pc = "commit",
                               !.txn = IF c.op = "persist"
                                       THEN persist_session_metadata(sessions, plan.id,
                                                c.title, "/p", c.at, c.at)
                                       ELSE NoTxn]]
    /\ UNCHANGED <<sessions, agent_sessions, user_settings, plan, clock, turn, boot>>

\* Line 18, reached only when the block did not raise: conn.commit() makes
\* the pending transaction the table, or raises and leaves the table.
Commit(fail) ==
    /\ plan.kind = "conn"
    /\ applied # <<>> /\ CurrentCall.pc = "commit"
    /\ sessions' = IF fail \/ CurrentCall.txn = NoTxn THEN sessions ELSE CurrentCall.txn
    /\ applied' = [applied EXCEPT ![Len(applied)] =
                      [@ EXCEPT !.pc = "finally", !.raising = fail]]
    /\ UNCHANGED <<agent_sessions, user_settings, plan, clock, turn, boot>>

\* A finally clause that is skipped when the block raised.
CloseConn_OnlyOnReturn(c) ==
    IF c.raising THEN [c EXCEPT !.pc = "raised"]
    ELSE [c EXCEPT !.state = "closed", !.txn = NoTxn, !.pc = "returned"]

\* Lines 19-20: conn.close() on every way out of the block; what was not
\* committed is rolled back.
CloseConn(c) ==
    [c EXCEPT !.state = "closed", !.txn = NoTxn,
              !.pc = IF c.raising THEN "raised" ELSE "returned"]

Close ==
    /\ plan.kind = "conn"
    /\ applied # <<>> /\ CurrentCall.pc = "finally"
    /\ applied' = [applied EXCEPT ![Len(applied)] = CloseConn(@)]
    /\ UNCHANGED <<sessions, agent_sessions, user_settings, plan, clock, turn, boot>>

NextConn ==
    \/ \E fail \in BOOLEAN : Connect(fail)
    \/ \E fail \in BOOLEAN : Execute(fail)
    \/ \E fail \in BOOLEAN : Commit(fail)
    \/ Close

SpecConn == InitConn /\ [][NextConn]_vars

\* The table as the k-th call left it.
TableAfter(k) == IF k < Len(applied) THEN applied[k + 1].before ELSE sessions

\* C34: a call that has returned or raised has no open connection and no
\* pending transaction; the only open connection is that of the call in
\* progress; a call that raised left the table as it found it, and a
\* persist call that returned left its upsert in the table.
C34_ConnectionReleasedAndRaiseCommitsNothing ==
    plan.kind = "conn" =>
        \A k \in 1..Len(applied) :
            /\ CallOver(applied[k]) =>
                  applied[k].state # "open" /\ applied[k].txn = NoTxn
            /\ applied[k].state = "open" => k = Len(applied)
            /\ applied[k].pc = "raised" => TableAfter(k) = applied[k].before
            /\ (applied[k].pc = "returned" /\ plan.calls[k].op = "persist") =>
                  TableAfter(k)[plan.id] # NoRow

\* C34 witness: the first call wrote its upsert and raised at commit, the
\* second returned; both connections are closed and the table holds the
\* second upsert only.
C34_Witness ==
    /\ plan.kind = "conn" /\ Len(applied) = 2
    /\ plan.calls[1].op = "persist" /\ plan.calls[1].title = "t1"
    /\ plan.calls[2].op = "persist" /\ plan.calls[2].title = "t2"
    /\ applied[1].pc = "raised" /\ applied[1].state = "closed"
    /\ applied[1].before = EmptySessions /\ applied[2].before = EmptySessions
    /\ applied[2].pc = "returned" /\ applied[2].state = "closed"
    /\ sessions[plan.id] # NoRow /\ sessions[plan.id].title = "t2"


\* C35: every stored conversation and sub-agent record has a created time
\* that is not later than its updated time.
C35_CreatedNotAfterUpdated ==
    /\ \A s \in StoredIds(sessions) :
          str_to_dt(sessions[s].created_at) <= str_to_dt(sessions[s].updated_at)
    /\ \A a \in StoredIds(agent_sessions) :
          str_to_dt(agent_sessions[a].created_at) <= str_to_dt(agent_sessions[a].updated_at)


(***************************************************************************)
(* Claims about the identity of a turn and its terminal event.             *)
(***************************************************************************)
\* Some message the turn received carries an identity other than sid.
ReportsOtherIdentity(tr, sid) ==
    \E k \in 1..Len(tr.inbox) : PayloadIds(tr.inbox[k]) \ {sid} # {}

\* C36: once the generator of a turn holds an identity, no step replaces it;
\* in a resumed turn every done event and every end-of-stream upsert carries
\* the identity of the request, whatever identities the agent's messages
\* carried.
C36_IdentityIsWriteOnce ==
    /\ [][\A t \in Turns :
             (turn[t].pc \in {"open", "stream", "closed"} /\ turn[t].session_id # NULL)
                 => turn'[t].session_id = turn[t].session_id]_vars
    /\ [](\A t \in Turns :
             (turn[t].invoked /\ turn[t].body.session_id # NULL) =>
                /\ \A i \in DOMAIN turn[t].events :
                      turn[t].events[i].kind = "done"
                          => turn[t].events[i].session_id = turn[t].body.session_id
                /\ \A i \in DOMAIN turn[t].writes :
                      turn[t].writes[i].session_id = turn[t].body.session_id)

\* C36 witness: a resumed turn on s1 whose agent sent an init and a result
\* message for s2 ended with done for s1 after one upsert of s1.
C36_Witness ==
    \E t \in Turns :
        /\ turn[t].body.session_id = "s1" /\ EndedWithDone(turn[t])
        /\ \E j, k \in 1..Len(turn[t].inbox) :
              /\ turn[t].inbox[j].cls = "init" /\ turn[t].inbox[j].sid = "s2"
              /\ turn[t].inbox[k].cls = "result" /\ turn[t].inbox[k].sid = "s2"
        /\ ReportsOtherIdentity(turn[t], "s1")
        /\ turn[t].events[Len(turn[t].events)].session_id = "s1"
        /\ Len(turn[t].writes) = 1 /\ turn[t].writes[1].session_id = "s1"


\* C37: the step that emits done for identity I has made the end-of-stream
\* upsert for I as the last write of the turn and leaves the store with a
\* record for I whose updated time is not before the turn-start time; from
\* then on the record stays so, and the turn writes nothing more.
C37_DoneFollowsCompletedUpsert ==
    /\ [][\A t \in Turns :
             /\ EndsWithDone(t) =>
                   \E d \in {turn'[t].events[Len(turn'[t].events)]} :
                      /\ Len(turn'[t].writes) = Len(turn[t].writes) + 1
                      /\ turn'[t].writes[Len(turn'[t].writes)].at = "end"
                      /\ turn'[t].writes[Len(turn'[t].writes)].session_id = d.session_id
                      /\ sessions'[d.session_id] # NoRow
                      /\ str_to_dt(sessions'[d.session_id].updated_at)
                            >= Instant(turn[t].now)
             /\ turn[t].pc = "closed" => turn'[t].writes = turn[t].writes]_vars
    /\ [](\A t \in Turns :
             EndedWithDone(turn[t]) =>
                \E d \in {turn[t].events[Len(turn[t].events)]} :
                   /\ sessions[d.session_id] # NoRow
                   /\ str_to_dt(sessions[d.session_id].updated_at) >= Instant(turn[t].now)
                   /\ \A i \in DOMAIN turn[t].events :
                         turn[t].events[i].kind = "done" => i = Len(turn[t].events))

\* C37 witness: after a clock tick a resumed turn on a conversation stored
\* with an older updated time has ended with done, and the stored updated
\* time is the turn-start time.
C37_Witness ==
    \E t \in Turns :
        /\ EndedWithDone(turn[t])
        /\ turn[t].existing_session # NoRow
        /\ str_to_dt(turn[t].existing_session.updated_at) < Instant(turn[t].now)
        /\ sessions[turn[t].session_id].updated_at = dt_to_str(turn[t].now)


\* The turn is over and its last event is an error event.
EndedWithError(tr) ==
    /\ tr.pc = "closed" /\ tr.events # <<>>
    /\ tr.events[Len(tr.events)].kind = "error"

\* The identities the init messages of the turn reported.
InitIdentities(tr) ==
    {tr.inbox[k].sid : k \in {j \in 1..Len(tr.inbox) : tr.inbox[j].cls = "init"}} \ {NULL}

\* C38: a turn that ended with an error event made no end-of-stream upsert;
\* if it resumed a conversation it wrote nothing, and no step of it changed
\* the store; if it opened one it wrote at most one record, at init time,
\* for an identity an init message reported, and the step that closed it
\* with the error event left the store unchanged.
C38_ErrorTurnWritesAtMostInitRecord ==
    /\ [](\A t \in Turns :
             EndedWithError(turn[t]) =>
                /\ \A i \in DOMAIN turn[t].writes : turn[t].writes[i].at # "end"
                /\ turn[t].body.session_id # NULL => turn[t].writes = <<>>
                /\ turn[t].body.session_id = NULL =>
                      /\ Len(turn[t].writes) <= 1
                      /\ \A i \in DOMAIN turn[t].writes :
                            /\ turn[t].writes[i].at = "init"
                            /\ turn[t].writes[i].session_id \in InitIdentities(turn[t]))
    /\ [][\A t \in Turns :
             /\ EndedWithError(turn'[t]) /\ ~EndedWithError(turn[t])
                   => sessions' = sessions /\ agent_sessions' = agent_sessions
             /\ (turn'[t] # turn[t] /\ turn'[t].body.session_id # NULL
                     /\ ~EndsWithDone(t))
                   => sessions' = sessions /\ agent_sessions' = agent_sessions]_vars

\* C38 witness: a new-conversation turn stored its init-time record for s2,
\* streamed a token, and its end-of-stream upsert raised: the turn ended with
\* error and the store holds the init-time record.
C38_Witness ==
    \E t \in Turns :
        /\ EndedWithError(turn[t]) /\ turn[t].fault = "upsert"
        /\ turn[t].body.session_id = NULL
        /\ Len(turn[t].writes) = 1 /\ turn[t].writes[1].at = "init"
        /\ turn[t].writes[1].session_id = "s2"
        /\ Positions(turn[t].events, {"token"}) # {}
        /\ sessions["s2"] # NoRow


(***************************************************************************)
(* Claims about a second bootstrap run over the same root.                 *)
(***************************************************************************)
\* The step is a bootstrap run over the root under test that follows an
\* earlier run over it.
SecondBootstrapRun == BootstrapRun /\ applied # <<>> /\ boot.status = 200

\* Some file of the root that the store keeps under identity k has a first
\* record without a parseable updated timestamp.
LacksUpdated(k) ==
    \E i \in YieldingFiles :
        /\ plan.calls[i].stem = k
        /\ parse_iso_timestamp(plan.calls[i].data.updated_at, NoTimestamp) = NoTimestamp

\* The record after the run is the record before it, but for an updated time
\* that may have been raised to the time of the run where LacksUpdated.
SameButUpdated(k, old, new) ==
    /\ new # NoRow
    /\ [new EXCEPT !.updated_at = old.updated_at] = old
    /\ new.updated_at # old.updated_at =>
          /\ LacksUpdated(k)
          /\ new.updated_at = dt_to_str(Now(5))
          /\ str_to_dt(new.updated_at) > str_to_dt(old.updated_at)

\* C39 as stated: a second bootstrap run over the unchanged root leaves both
\* tables as the first run left them.
C39_SecondRunChangesNothing ==
    [][SecondBootstrapRun =>
          sessions' = sessions /\ agent_sessions' = agent_sessions]_vars

\* C39 as amended: a second bootstrap run over the unchanged root leaves
\* title, directory, created time and parent of every stored conversation
\* and sub-agent record as the first run left them, and the updated time
\* too, except that the record of a file whose first record has no
\* parseable updated timestamp may get the time of the second run as its
\* updated time, when that is later than the stored one.
C39_SecondRunKeepsAllButDefaultedUpdated ==
    [][SecondBootstrapRun =>
          /\ \A k \in StoredIds(sessions) : SameButUpdated(k, sessions[k], sessions'[k])
          /\ \A k \in StoredIds(agent_sessions) :
                SameButUpdated(k, agent_sessions[k], agent_sessions'[k])
          /\ StoredIds(sessions') = StoredIds(sessions)
          /\ StoredIds(agent_sessions') = StoredIds(agent_sessions)]_vars

\* C39 witness: the root holds a conversation file without timestamps and a
\* sub-agent file with a created time only; the clock moved between the two
\* runs, and after the second both records have the later updated time and
\* the created time of the first run.
C39_Witness ==
    /\ plan.kind = "root" /\ Len(applied) = 2
    /\ applied[1].boot.status = 200 /\ applied[2].boot.status = 200
    /\ clock = 9 /\ Len(plan.calls) = 2
    /\ plan.calls[1].stem = "s1" /\ plan.calls[1].data.created_at = NULL
    /\ plan.calls[2].stem = "agent-a1"
    /\ sessions["s1"] # NoRow
    /\ sessions["s1"].created_at = "08.500000+00:00"
    /\ sessions["s1"].updated_at = "09.500000+00:00"
    /\ agent_sessions["agent-a1"] # NoRow
    /\ agent_sessions["agent-a1"].created_at = "09+00:00"
    /\ agent_sessions["agent-a1"].updated_at = "09.500000+00:00"

====
